---- MODULE Spec2Model ----
(***************************************************************************)
(* A model of the ROM scanner of retro-hash-report: the extension          *)
(* classifier, the directory walker, the archive adapters (zip, 7z, rar),  *)
(* the hashing engine calculateMD5 and the orchestrator scanDirectory.     *)
(*                                                                         *)
(* File names are sequences of dot-separated tokens (<<"mario","sfc">> is  *)
(* mario.sfc), paths are records [dir, name], file contents are records    *)
(* [id, size]: a content identity and a byte count.  An MD5 digest is      *)
(* modelled by the content identity and the number of its leading bytes    *)
(* that were fed to the hash, so two digests are equal exactly when the    *)
(* same prefix of the same content was hashed.                             *)
(***************************************************************************)
EXTENDS Integers, Sequences, FiniteSets, TLC

(***************************************************************************)
(* Bounds of the model.                                                    *)
(***************************************************************************)
\* entries in the scanned directory
MaxFiles == 2
\* failures the environment injects during one scan
MaxFaults == 2
\* timeout periods the clock may advance during one scan
MaxClock == 2

(***************************************************************************)
(* Values shared by every part of the model.                               *)
(***************************************************************************)
\* JavaScript null / undefined / an absent field
Null == <<>>

Field(r, f) == IF f \in DOMAIN r THEN r[f] ELSE Null

Last(s) == s[Len(s)]

\* Sizes and offsets are counted in KiB: a byte count of 4 GB exceeds the
\* 32 bit integers of the model checker.  KB, MB, GB are the units.
KB == 2^0

MB == 1024 * KB

(***************************************************************************)
(* Extension classifier.                                                   *)
(***************************************************************************)
\* only the extensions the command line's "Supported extensions" hint names
ROM_EXTENSIONS_HintOnly ==
  { ".nes", ".sfc", ".smc", ".gb", ".gbc", ".gba", ".md", ".bin", ".n64", ".iso" }

ROM_EXTENSIONS ==
  { ".nes", ".fds", ".sfc", ".smc", ".gb", ".gbc", ".gba", ".nds", ".n64",
    ".z64", ".v64", ".gcm", ".gcz", ".rvz", ".wbfs", ".wad", ".wux", ".wud",
    ".3ds", ".cia", ".nsp", ".xci",
    ".md", ".smd", ".gen", ".bin", ".gg", ".sms", ".32x", ".sg", ".gdi",
    ".cdi", ".chd",
    ".iso", ".cue", ".img", ".cso", ".pbp", ".pkg", ".p3t",
    ".a26", ".a78", ".lnx", ".jag", ".j64",
    ".pce", ".ngp", ".ngc", ".ws", ".wsc", ".col", ".int", ".vec", ".min",
    ".vb", ".rom" }

ARCHIVE_EXTENSIONS == { ".zip", ".7z", ".rar" }

\* String.prototype.toLowerCase on the tokens the model uses
toLowerCase(tok) ==
  CASE tok = "NES" -> "nes"
    [] tok = "FDS" -> "fds"
    [] tok = "SFC" -> "sfc"
    [] tok = "SMC" -> "smc"
    [] tok = "GB" -> "gb"
    [] tok = "GBC" -> "gbc"
    [] tok = "GBA" -> "gba"
    [] tok = "NDS" -> "nds"
    [] tok = "N64" -> "n64"
    [] tok = "Z64" -> "z64"
    [] tok = "V64" -> "v64"
    [] tok = "GCM" -> "gcm"
    [] tok = "GCZ" -> "gcz"
    [] tok = "RVZ" -> "rvz"
    [] tok = "WBFS" -> "wbfs"
    [] tok = "WAD" -> "wad"
    [] tok = "WUX" -> "wux"
    [] tok = "WUD" -> "wud"
    [] tok = "3DS" -> "3ds"
    [] tok = "CIA" -> "cia"
    [] tok = "NSP" -> "nsp"
    [] tok = "XCI" -> "xci"
    [] tok = "MD" -> "md"
    [] tok = "SMD" -> "smd"
    [] tok = "GEN" -> "gen"
    [] tok = "BIN" -> "bin"
    [] tok = "GG" -> "gg"
    [] tok = "SMS" -> "sms"
    [] tok = "32X" -> "32x"
    [] tok = "SG" -> "sg"
    [] tok = "GDI" -> "gdi"
    [] tok = "CDI" -> "cdi"
    [] tok = "CHD" -> "chd"
    [] tok = "ISO" -> "iso"
    [] tok = "CUE" -> "cue"
    [] tok = "IMG" -> "img"
    [] tok = "CSO" -> "cso"
    [] tok = "PBP" -> "pbp"
    [] tok = "PKG" -> "pkg"
    [] tok = "P3T" -> "p3t"
    [] tok = "A26" -> "a26"
    [] tok = "A78" -> "a78"
    [] tok = "LNX" -> "lnx"
    [] tok = "JAG" -> "jag"
    [] tok = "J64" -> "j64"
    [] tok = "PCE" -> "pce"
    [] tok = "NGP" -> "ngp"
    [] tok = "NGC" -> "ngc"
    [] tok = "WS" -> "ws"
    [] tok = "WSC" -> "wsc"
    [] tok = "COL" -> "col"
    [] tok = "INT" -> "int"
    [] tok = "VEC" -> "vec"
    [] tok = "MIN" -> "min"
    [] tok = "VB" -> "vb"
    [] tok = "ROM" -> "rom"
    [] tok = "ZIP" -> "zip"
    [] tok = "7Z" -> "7z"
    [] tok = "RAR" -> "rar"
    [] tok = "TXT" -> "txt"
    [] tok = "TAR" -> "tar"
    [] tok = "GZ" -> "gz"
    [] tok = "JPG" -> "jpg"
    [] tok = "Sfc" -> "sfc"
    [] tok = "Zip" -> "zip"
    [] tok = "Nes" -> "nes"
    [] tok = "Gb" -> "gb"
    [] tok = "Rar" -> "rar"
    [] tok = "Iso" -> "iso"
    [] OTHER -> tok

\* "." followed by a token
Dot(tok) ==
  CASE tok = "nes" -> ".nes"
    [] tok = "fds" -> ".fds"
    [] tok = "sfc" -> ".sfc"
    [] tok = "smc" -> ".smc"
    [] tok = "gb" -> ".gb"
    [] tok = "gbc" -> ".gbc"
    [] tok = "gba" -> ".gba"
    [] tok = "nds" -> ".nds"
    [] tok = "n64" -> ".n64"
    [] tok = "z64" -> ".z64"
    [] tok = "v64" -> ".v64"
    [] tok = "gcm" -> ".gcm"
    [] tok = "gcz" -> ".gcz"
    [] tok = "rvz" -> ".rvz"
    [] tok = "wbfs" -> ".wbfs"
    [] tok = "wad" -> ".wad"
    [] tok = "wux" -> ".wux"
    [] tok = "wud" -> ".wud"
    [] tok = "3ds" -> ".3ds"
    [] tok = "cia" -> ".cia"
    [] tok = "nsp" -> ".nsp"
    [] tok = "xci" -> ".xci"
    [] tok = "md" -> ".md"
    [] tok = "smd" -> ".smd"
    [] tok = "gen" -> ".gen"
    [] tok = "bin" -> ".bin"
    [] tok = "gg" -> ".gg"
    [] tok = "sms" -> ".sms"
    [] tok = "32x" -> ".32x"
    [] tok = "sg" -> ".sg"
    [] tok = "gdi" -> ".gdi"
    [] tok = "cdi" -> ".cdi"
    [] tok = "chd" -> ".chd"
    [] tok = "iso" -> ".iso"
    [] tok = "cue" -> ".cue"
    [] tok = "img" -> ".img"
    [] tok = "cso" -> ".cso"
    [] tok = "pbp" -> ".pbp"
    [] tok = "pkg" -> ".pkg"
    [] tok = "p3t" -> ".p3t"
    [] tok = "a26" -> ".a26"
    [] tok = "a78" -> ".a78"
    [] tok = "lnx" -> ".lnx"
    [] tok = "jag" -> ".jag"
    [] tok = "j64" -> ".j64"
    [] tok = "pce" -> ".pce"
    [] tok = "ngp" -> ".ngp"
    [] tok = "ngc" -> ".ngc"
    [] tok = "ws" -> ".ws"
    [] tok = "wsc" -> ".wsc"
    [] tok = "col" -> ".col"
    [] tok = "int" -> ".int"
    [] tok = "vec" -> ".vec"
    [] tok = "min" -> ".min"
    [] tok = "vb" -> ".vb"
    [] tok = "rom" -> ".rom"
    [] tok = "zip" -> ".zip"
    [] tok = "7z" -> ".7z"
    [] tok = "rar" -> ".rar"
    [] tok = "txt" -> ".txt"
    [] tok = "tar" -> ".tar"
    [] tok = "gz" -> ".gz"
    [] tok = "jpg" -> ".jpg"
    [] tok = "" -> "."
    [] OTHER -> ".?"

\* the extension taken from the first dot of the name instead of the last
extnameFirstDot(name) ==
  IF Len(name) < 2 \/ (Len(name) = 2 /\ name[1] = "") THEN ""
  ELSE Dot(toLowerCase(name[2]))

\* path.extname(name).toLowerCase(): the text from the last dot of the name,
\* empty when there is no dot or the only dot is the name's first character
extname(name) ==
  IF Len(name) < 2 \/ (Len(name) = 2 /\ name[1] = "") THEN ""
  ELSE Dot(toLowerCase(Last(name)))

isRomFile(name) == extname(name) \in ROM_EXTENSIONS

isArchiveFile(name) == extname(name) \in ARCHIVE_EXTENSIONS

(***************************************************************************)
(* Contents, digests, errors.                                              *)
(***************************************************************************)
Data(id, size) == [id |-> id, size |-> size]

\* hash.update with the bytes [offset, offset + length) of the content: what
\* was fed so far is the sequence of byte ranges, in the order fed, two
\* adjoining ranges making one (the hash sees only the concatenated bytes)
Feed(fed, offset, length) ==
  IF length = 0 THEN fed
  ELSE IF fed # <<>> /\ fed[Len(fed)][2] = offset
       THEN [fed EXCEPT ![Len(fed)] = << fed[Len(fed)][1], offset + length >>]
       ELSE Append(fed, << offset, offset + length >>)

\* hash.digest("hex").toLowerCase() after the ranges fed of content id
Digest(id, fed) == <<"md5", id, fed>>

\* the MD5 of a whole content
MD5(data) == Digest(data.id, Feed(<<>>, 0, data.size))

\* new Error(message): a message is a tuple of its template and its cause
Err(text, cause) == <<text, cause>>

(***************************************************************************)
(* The scanned directory.  Each catalogue entry is one directory entry:    *)
(* its name, its type, its bytes and, for archives, its member list and    *)
(* whether the container is well formed.                                   *)
(***************************************************************************)
Member(dir, name, data) == [dir |-> dir, name |-> name, isDir |-> FALSE, data |-> data]

Entry(name, type, data, members) ==
  [name |-> name, type |-> type, data |-> data, members |-> members]

\* the entries a scanned directory may hold, in the order readdir lists them
Listing ==
  << Entry(<<"dupes", "Zip">>, "file", Data("D", 5),
           << Member("a", <<"game", "nes">>, Data("P", 3)),
              Member("b", <<"game", "nes">>, Data("Q", 4)) >>),
     Entry(<<"zelda", "zip">>, "file", Data("Z", 3),
           << Member("", <<"zelda", "sfc">>, Data("Y", 2)),
              Member("", <<"readme", "txt">>, Data("R", 1)) >>),
     Entry(<<"mario", "sfc">>, "file", Data("X", 1), <<>>),
     Entry(<<"notes", "txt">>, "file", Data("N", 1), <<>>),
     Entry(<<"pack", "7z">>, "file", Data("S", 9),
           << Member("", <<"manual", "txt">>, Data("M", 1)),
              Member("usa", <<"sonic", "md">>, Data("G", 7)) >>),
     Entry(<<"disc", "ISO">>, "file", Data("B", 100 * MB + 1), <<>>),
     Entry(<<"saves", "sfc">>, "dir", Data("", 0), <<>>),
     Entry(<<"set", "rar">>, "file", Data("T", 80),
           << Member("", <<"tetris", "gb">>, Data("E", 70)) >>),
     Entry(<<"docs", "zip">>, "file", Data("O", 1),
           << Member("", <<"readme", "txt">>, Data("R", 1)) >>) >>

RECURSIVE Keep(_, _, _)
\* the entries of s at the positions in keep, from position n on, in order
Keep(s, keep, n) ==
  IF n > Len(s) THEN <<>>
  ELSE (IF n \in keep THEN <<s[n]>> ELSE <<>>) \o Keep(s, keep, n + 1)

\* the directories scanned: at most MaxFiles entries of the listing
Disks ==
  { Keep(Listing, keep, 1) :
      keep \in { c \in SUBSET (1..Len(Listing)) : Cardinality(c) <= MaxFiles } }

\* the directory being scanned, and the n-th directory mkdtemp creates
RootDir == <<"root", 0>>

TempDir(n) == <<"tmp", n>>

Path(dir, name) == [dir |-> dir, name |-> name]

(***************************************************************************)
(* State.                                                                  *)
(***************************************************************************)
VARIABLES
  root,               \* what the path given to scanDirectory is on disk
  disk,               \* the entries of the scanned directory, in readdir order
  pc,                 \* where scanDirectory, or the entry point being run, is
  romFiles,           \* scanDirectory's romFiles
  archiveFiles,       \* scanDirectory's archiveFiles
  i,                  \* index of the current ROM file in romFiles
  j,                  \* index of the current archive in archiveFiles
  k,                  \* index of the current member in extractedROMs
  extractedROMs,      \* members extracted from the current archive
  fileStats,          \* size from statSync of the item being hashed
  results,            \* scanDirectory's results
  origins,            \* for each result, the item it was recorded for
  tempDirsToCleanup,  \* scanDirectory's tempDirsToCleanup
  tempDirs,           \* the temporary directories on disk, with their files
  nTemp,              \* how many temporary directories mkdtempSync created
  hashOps,            \* calculateMD5 calls that have not settled
  extractOps,         \* extractROMsFromArchive calls that have not settled
  awaited,            \* settlement of the promise scanDirectory awaits
  now,                \* the clock, in milliseconds
  faults,             \* failures injected so far
  extractLog,         \* for each extraction that resolved, what it yielded
  hashLog,            \* the calculateMD5 call that settled, until its caller resumes
  thrown,             \* the error scanDirectory rejected with
  debug,              \* whether process.env.DEBUG is set
  diagnostics,        \* the kinds of [DEBUG] lines written to the console
  result,             \* listRomFiles' result
  listLog,            \* for each archive listRomFiles listed, what it contributed
  directory,          \* main's romDirectory: the text of options.path
  consoles,           \* main's consoles: the platform list
  options,            \* main's options
  suggestedConsole,   \* main's suggestedConsole: empty or the one platform
  suggestLog,         \* where suggestConsole returned, and the extension it looked up
  selectedConsole,    \* main's selectedConsole: empty or the one platform
  prompts,            \* the prompts the user answered, with the answers
  hashMap,            \* main's hashMap: empty or the one catalog fetched
  scannedRoms,        \* main's scannedRoms: what scanDirectory returned
  compared,           \* main's results: the comparison of each scanned ROM
  lookups,            \* the keys main passed to hashMap.get, in order
  summary,            \* empty or the counts displaySummary printed
  exitCode            \* empty or the status process.exit was called with

vars ==
  << root, disk, pc, romFiles, archiveFiles, i, j, k, extractedROMs, fileStats,
     results, origins, tempDirsToCleanup, tempDirs, nTemp, hashOps, extractOps,
     awaited, now, faults, extractLog, hashLog, thrown, debug, diagnostics,
     result, listLog, directory, consoles, options, suggestedConsole, suggestLog,
     selectedConsole, prompts, hashMap, scannedRoms, compared, lookups, summary,
     exitCode >>

\* the state of the entry points other than scanDirectory and calculateMD5
apartVars ==
  << result, listLog, directory, consoles, options, suggestedConsole, suggestLog,
     selectedConsole, prompts, hashMap, scannedRoms, compared, lookups, summary,
     exitCode >>

\* main from step 6 on has not run
TailIdle ==
  /\ hashMap = <<>>
  /\ scannedRoms = <<>>
  /\ compared = <<>>
  /\ lookups = <<>>
  /\ summary = <<>>
  /\ exitCode = <<>>

\* no other entry point has run
ApartIdle ==
  /\ result = <<>>
  /\ listLog = <<>>
  /\ directory = <<>>
  /\ consoles = <<>>
  /\ options = [system |-> "", given |-> FALSE]
  /\ suggestedConsole = <<>>
  /\ suggestLog = Null
  /\ selectedConsole = <<>>
  /\ prompts = <<>>
  /\ TailIdle

\* if (process.env.DEBUG) console.error(...), for each of the lines
DebugLog(d, lines) ==
  diagnostics' = IF d THEN diagnostics \cup lines ELSE diagnostics

Pending == [state |-> "pending", value |-> Null]

Resolved(v) == [state |-> "resolved", value |-> v]

Rejected(e) == [state |-> "rejected", value |-> e]

CanFail == faults < MaxFaults

(***************************************************************************)
(* The file system as the program reads it.                                *)
(***************************************************************************)
NoFile == [type |-> "none", data |-> Data("", 0)]

FileAt(path) ==
  IF path.dir = RootDir
  THEN LET hits == { n \in 1..Len(disk) : disk[n].name = path.name }
       IN IF hits = {} THEN NoFile
          ELSE LET e == disk[CHOOSE n \in hits : TRUE]
               IN [type |-> e.type, data |-> e.data]
  ELSE IF path.dir \in DOMAIN tempDirs /\ path.name \in DOMAIN tempDirs[path.dir]
       THEN [type |-> "file", data |-> tempDirs[path.dir][path.name]]
       ELSE NoFile

MembersOf(path) ==
  LET hits == { n \in 1..Len(disk) : disk[n].name = path.name }
  IN IF hits = {} THEN <<>> ELSE disk[CHOOSE n \in hits : TRUE].members

(***************************************************************************)
(* Directory walker.                                                       *)
(***************************************************************************)
\* a directory below the root, named by its path relative to the root
SubDir(relativePath) == <<"dir", relativePath>>

RECURSIVE scanRecursiveAbortOnError(_, _, _, _)
\* a walk that gives up the rest of a directory at the first entry it
\* cannot enter or whose type it cannot read
scanRecursiveAbortOnError(dir, relativeBase, entries, n) ==
  IF n > Len(entries) THEN <<>>
  ELSE LET entry == entries[n]
           relativePath == relativeBase \o <<entry.name>>
       IN IF entry.type \in { "unreadable dir", "unreadable" } THEN <<>>
          ELSE (IF entry.type = "dir"
                THEN scanRecursiveAbortOnError(SubDir(relativePath), relativePath,
                                               entry.members, 1)
                ELSE IF entry.type = "file"
                        /\ (isRomFile(entry.name) \/ isArchiveFile(entry.name))
                THEN << [filename |-> entry.name,
                         filePath |-> Path(dir, entry.name),
                         relativePath |-> relativePath] >>
                ELSE <<>>)
               \o scanRecursiveAbortOnError(dir, relativeBase, entries, n + 1)

RECURSIVE scanRecursiveFollowLinks(_, _, _, _)
\* a walk that takes a symbolic link for what it points to
scanRecursiveFollowLinks(dir, relativeBase, entries, n) ==
  IF n > Len(entries) THEN <<>>
  ELSE LET entry == entries[n]
           relativePath == relativeBase \o <<entry.name>>
           isDirectory == entry.type = "dir"
                          \/ (entry.type = "symlink" /\ entry.members # <<>>)
           isFile == entry.type = "file"
                     \/ (entry.type = "symlink" /\ entry.members = <<>>)
           here == IF isDirectory
                   THEN scanRecursiveFollowLinks(SubDir(relativePath), relativePath,
                                                 entry.members, 1)
                   ELSE IF isFile /\ (isRomFile(entry.name) \/ isArchiveFile(entry.name))
                   THEN << [filename |-> entry.name,
                            filePath |-> Path(dir, entry.name),
                            relativePath |-> relativePath] >>
                   ELSE <<>>
       IN here \o scanRecursiveFollowLinks(dir, relativeBase, entries, n + 1)

RECURSIVE scanRecursive(_, _, _, _)
\* the entries n.. of the listing of dir: a directory is walked in its turn
\* (one that cannot be read yields nothing), a regular file with a ROM or an
\* archive extension is reported, an entry whose type cannot be read is
\* passed over; all in listing order
scanRecursive(dir, relativeBase, entries, n) ==
  IF n > Len(entries) THEN <<>>
  ELSE LET entry == entries[n]
           relativePath == relativeBase \o <<entry.name>>
           here == IF entry.type = "dir"
                   THEN scanRecursive(SubDir(relativePath), relativePath,
                                      entry.members, 1)
                   ELSE IF entry.type = "file"
                           /\ (isRomFile(entry.name) \/ isArchiveFile(entry.name))
                   THEN << [filename |-> entry.name,
                            filePath |-> Path(dir, entry.name),
                            relativePath |-> relativePath] >>
                   ELSE <<>>
       IN here \o scanRecursive(dir, relativeBase, entries, n + 1)

findRomAndArchiveFiles(entries) == scanRecursive(RootDir, <<>>, entries, 1)

RECURSIVE filterRom(_)
filterRom(files) ==
  IF files = <<>> THEN <<>>
  ELSE (IF isRomFile(Head(files).filename) THEN <<Head(files)>> ELSE <<>>)
       \o filterRom(Tail(files))

RECURSIVE filterArchive(_)
filterArchive(files) ==
  IF files = <<>> THEN <<>>
  ELSE (IF isArchiveFile(Head(files).filename) THEN <<Head(files)>> ELSE <<>>)
       \o filterArchive(Tail(files))

(***************************************************************************)
(* Hashing engine: calculateMD5.                                           *)
(***************************************************************************)
HASH_TIMEOUT_MS == 30 * 60 * 1000

GB == 1024 * MB

useDirectRead(fileSize) == fileSize > 100 * MB

\* a buffer size that drops again for files above 2 GB
bufferSizeDip(fileSize) ==
  IF fileSize > 4 * GB THEN 16 * MB
  ELSE IF fileSize > 2 * GB THEN 2 * MB
  ELSE IF fileSize > GB THEN 8 * MB
  ELSE IF fileSize > 500 * MB THEN 4 * MB
  ELSE IF fileSize > 100 * MB THEN 2 * MB
  ELSE IF fileSize > 10 * MB THEN MB
  ELSE 64 * KB

bufferSize(fileSize) ==
  IF fileSize > 4 * GB THEN 16 * MB
  ELSE IF fileSize > 2 * GB THEN 12 * MB
  ELSE IF fileSize > GB THEN 8 * MB
  ELSE IF fileSize > 500 * MB THEN 4 * MB
  ELSE IF fileSize > 100 * MB THEN 2 * MB
  ELSE IF fileSize > 10 * MB THEN MB
  ELSE 64 * KB

Min(a, b) == IF a < b THEN a ELSE b

NoTimer == 0 - 1

\* (bytesRead / fileSize) * 100, rounded down to a whole percent
Percent(bytesRead, fileSize) == (bytesRead * 100) \div fileSize

\* progressSinceLastReport >= progressInterval, the interval being
\* Math.min(fileSize * 0.05, 100 * 1024 * 1024)
progressDue(progressSinceLastReport, fileSize) ==
  \/ progressSinceLastReport * 20 >= fileSize
  \/ progressSinceLastReport >= 100 * MB

\* options.onProgress(progress, bytesRead, fileSize)
onProgress(calls, bytesRead, fileSize) ==
  Append(calls, [percent |-> Percent(bytesRead, fileSize),
                 bytesRead |-> bytesRead, totalBytes |-> fileSize])

\* the call calculateMD5(filePath) up to its first await (fs.promises.stat);
\* fed is the state of the hash, progress the calls made to onProgress
NewHashOp(filePath) ==
  [ path |-> filePath, state |-> "stat", start |-> now, fileSize |-> 0,
    bytesRead |-> 0, id |-> "", deadline |-> NoTimer, fed |-> <<>>,
    lastProgressReport |-> 0, progress |-> <<>> ]

\* the onProgress callback scanDirectory passes: a [DEBUG] line for each
\* report on a file larger than 10 MB
ProgressLines(op, new) ==
  IF Len(new.progress) > Len(op.progress) /\ pc \in { "rom_await", "member_await" }
     /\ new.fileSize > 10 * MB
  THEN { "progress" } ELSE {}

\* the promise of op settles, the call having reached the state final: the
\* awaiting caller is handed the outcome
SettleAs(op, final, outcome) ==
  /\ hashOps' = hashOps \ {op}
  /\ awaited' = outcome
  /\ hashLog' = [op |-> final, outcome |-> outcome]
  /\ DebugLog(debug, ProgressLines(op, final)
                       \cup IF outcome.state = "resolved" THEN { "Hashed" } ELSE {})

Settle(op, outcome) == SettleAs(op, op, outcome)

Update(op, new) ==
  /\ hashOps' = (hashOps \ {op}) \cup {new}
  /\ UNCHANGED hashLog
  /\ DebugLog(debug, ProgressLines(op, new))

\* setTimeout(..., 30 * 60 * 1000) on the stream strategy; the positional-read
\* strategy sets no timer
TimerFor(fileSize) ==
  IF useDirectRead(fileSize) THEN NoTimer ELSE now + HASH_TIMEOUT_MS

\* fs.promises.stat settles; on success the strategy is chosen and either the
\* file is being opened (positional reads) or the stream and its timer exist
HashStat(op) ==
  /\ op.state = "stat"
  /\ \/ /\ FileAt(op.path).type # "none"
        /\ LET size == FileAt(op.path).data.size
           IN Update(op, [op EXCEPT !.state = IF useDirectRead(size)
                                               THEN "open" ELSE "stream",
                                      !.fileSize = size,
                                      !.id = FileAt(op.path).data.id,
                                      !.deadline = TimerFor(size)])
        /\ UNCHANGED << awaited, faults >>
     \/ /\ CanFail \/ FileAt(op.path).type = "none"
        /\ faults' = IF FileAt(op.path).type = "none" THEN faults ELSE faults + 1
        /\ Settle(op, Rejected(Err("Cannot read file stats: ", "ENOENT")))
  /\ UNCHANGED now

\* fs.promises.open settles (positional-read strategy)
HashOpen(op) ==
  /\ op.state = "open"
  /\ \/ /\ Update(op, [op EXCEPT !.state = "read"])
        /\ UNCHANGED << awaited, faults >>
     \/ /\ CanFail
        /\ faults' = faults + 1
        /\ Settle(op, Rejected(Err("Failed to hash file: ", "EACCES")))
  /\ UNCHANGED now

\* positional reads that always read at the start of the file
ReadPositionStart(op) == 0

\* the position argument of fileHandle.read
ReadPosition(op) == op.bytesRead

\* fileHandle.read settles: the chunk read at the position is fed to the
\* hash and progress is reported when due; after the last chunk the handle
\* is closed and the digest returned
HashRead(op) ==
  /\ op.state = "read"
  /\ op.bytesRead < op.fileSize
  /\ \/ /\ LET bytesToRead == Min(bufferSize(op.fileSize), op.fileSize - op.bytesRead)
               position == ReadPosition(op)
               chunkSize == Min(bytesToRead, op.fileSize - position)
               read == op.bytesRead + chunkSize
               report == progressDue(read - op.lastProgressReport, op.fileSize)
                           \/ read = op.fileSize
               after == [op EXCEPT
                           !.bytesRead = read,
                           !.fed = Feed(op.fed, position, chunkSize),
                           !.progress = IF report
                                        THEN onProgress(op.progress, read, op.fileSize)
                                        ELSE op.progress,
                           !.lastProgressReport = IF report THEN read
                                                  ELSE op.lastProgressReport]
           IN IF read < op.fileSize
              THEN /\ Update(op, after)
                   /\ UNCHANGED awaited
              ELSE SettleAs(op, after, Resolved(Digest(op.id, after.fed)))
        /\ UNCHANGED faults
     \/ /\ CanFail
        /\ faults' = faults + 1
        /\ Settle(op, Rejected(Err("Failed to hash file: ", "EIO")))
  /\ UNCHANGED now

\* stream "data": a chunk of at most highWaterMark bytes, the next of the
\* file, is fed to the hash and reported to onProgress
HashData(op) ==
  /\ op.state = "stream"
  /\ op.bytesRead < op.fileSize
  /\ LET chunk == Min(bufferSize(op.fileSize), op.fileSize - op.bytesRead)
         read == op.bytesRead + chunk
     IN Update(op, [op EXCEPT
                      !.bytesRead = read,
                      !.fed = Feed(op.fed, op.bytesRead, chunk),
                      !.progress = IF op.fileSize > 0
                                   THEN onProgress(op.progress, read, op.fileSize)
                                   ELSE op.progress])
  /\ UNCHANGED << awaited, faults, now >>

\* stream "end": the timer is cleared and the digest resolved
HashEnd(op) ==
  /\ op.state = "stream"
  /\ op.bytesRead = op.fileSize
  /\ Settle(op, Resolved(Digest(op.id, op.fed)))
  /\ UNCHANGED << faults, now >>

\* a stream error that hands over the digest of what was read so far
HashStreamErrorDigest(op) ==
  /\ op.state = "stream"
  /\ CanFail
  /\ faults' = faults + 1
  /\ Settle(op, Resolved(Digest(op.id, op.fed)))
  /\ UNCHANGED now

\* stream "error": the timer is cleared and the promise rejected
HashStreamError(op) ==
  /\ op.state = "stream"
  /\ CanFail
  /\ faults' = faults + 1
  /\ Settle(op, Rejected(Err("Failed to read file stream: ", "EIO")))
  /\ UNCHANGED now

\* the 30 minute timer fires: the stream is destroyed, the promise rejected
HashTimeout(op) ==
  /\ op.state \in { "stream", "hung" }
  /\ op.deadline # NoTimer
  /\ now >= op.deadline
  /\ Settle(op, Rejected(Err("Timeout: File hashing exceeded 30 minutes for ", op.path)))
  /\ UNCHANGED << faults, now >>

Reading(op) == op.state \in { "open", "read", "stream", "hung" }

\* a timeout period passes while a read is outstanding; a timer that is due
\* fires before the clock moves on
TimePasses ==
  /\ \E op \in hashOps : Reading(op)
  /\ \A op \in hashOps : op.deadline # NoTimer => now < op.deadline
  /\ now < MaxClock * HASH_TIMEOUT_MS
  /\ now' = now + HASH_TIMEOUT_MS
  /\ UNCHANGED << hashOps, awaited, faults, hashLog, diagnostics >>

(***************************************************************************)
(* Temporary directories.                                                  *)
(***************************************************************************)
EmptyDir == [n \in {} |-> Data("", 0)]

\* fs.mkdtempSync: a fresh, empty directory
MkDir(fs, dir) == [d \in DOMAIN fs \cup {dir} |-> IF d = dir THEN EmptyDir ELSE fs[d]]

\* fs.rmSync(dir, {recursive: true, force: true})
RmDir(fs, dir) == [d \in DOMAIN fs \ {dir} |-> fs[d]]

\* a write that leaves a file of the same name as it is
WriteFileKeepFirst(fs, dir, name, data) ==
  [d \in DOMAIN fs |->
     IF d # dir THEN fs[d]
     ELSE [n \in DOMAIN fs[d] \cup {name} |->
             IF n \in DOMAIN fs[d] THEN fs[d][n] ELSE data]]

\* a file written under its name, replacing a file of the same name
WriteFile(fs, dir, name, data) ==
  [d \in DOMAIN fs |->
     IF d # dir THEN fs[d]
     ELSE [n \in DOMAIN fs[d] \cup {name} |-> IF n = name THEN data ELSE fs[d][n]]]

(***************************************************************************)
(* Archive adapters.  An extraction in flight is a record: the archive,    *)
(* its format, the temporary directory of the call, the next entry of the  *)
(* table of contents and the files extracted so far.                       *)
(***************************************************************************)
\* the object the adapters push for an extracted ROM; idx is the member's
\* position in the archive's table of contents
ExtractedFile(op, idx) ==
  [ name |-> op.members[idx].name,
    path |-> Path(op.tempDir, op.members[idx].name),
    archivePath |-> op.archivePath,
    tempDir |-> op.tempDir,
    idx |-> idx ]

\* IsRomEntry without the extension test
IsRomEntryAny(m) == TRUE

IsRomEntry(m) == extname(m.name) \in ROM_EXTENSIONS

SettleExtract(op, outcome) ==
  /\ extractOps' = extractOps \ {op}
  /\ awaited' = outcome

UpdateExtract(op, new) == extractOps' = (extractOps \ {op}) \cup {new}

\* what fs.rmSync(tempDir, ...).catch(() => {}) throws once rmSync returned
RmSyncCatchError == Err("Cannot read properties of undefined (reading 'catch')", "TypeError")

\* a dispatch that hands every other extension to the zip adapter
NewExtractOpDefaultZip(archivePath) ==
  [ archivePath |-> archivePath,
    members |-> MembersOf(archivePath),
    tempDir |-> TempDir(nTemp + 1),
    n |-> 1,
    extractedFiles |-> <<>>,
    readEntries |-> 0,
    writeErrors |-> {},
    state |-> IF extname(archivePath.name) = ".7z" THEN "7z_list"
              ELSE IF extname(archivePath.name) = ".rar" THEN "rar_create"
              ELSE "zip_open" ]

\* the call extractROMsFromArchive(archivePath) up to its first await: the
\* adapter is chosen by extension, creates its temporary directory and
\* starts opening or listing the archive
NewExtractOp(archivePath) ==
  LET ext == extname(archivePath.name)
  IN [ archivePath |-> archivePath,
       members |-> MembersOf(archivePath),
       tempDir |-> TempDir(nTemp + 1),
       n |-> 1,
       extractedFiles |-> <<>>,
       readEntries |-> 0,
       writeErrors |-> {},
       state |-> IF ext = ".zip" THEN "zip_open"
                 ELSE IF ext = ".7z" THEN "7z_list"
                 ELSE IF ext = ".rar" THEN "rar_create"
                 ELSE "unsupported" ]

\* yauzl.open calls back
ZipOpen(op) ==
  /\ op.state = "zip_open"
  /\ \/ /\ UpdateExtract(op, [op EXCEPT !.state = "zip_entries", !.readEntries = 1])
        /\ UNCHANGED << awaited, faults >>
     \/ /\ CanFail
        /\ faults' = faults + 1
        /\ SettleExtract(op, Rejected(Err("Failed to open ZIP archive: ", "bad header")))
  /\ UNCHANGED << tempDirs >>

\* zipfile "entry": a member without a ROM extension is passed over; a ROM
\* member is copied to tempDir under its base name and recorded when the
\* write stream closes; a member that cannot be opened or written is skipped
ZipEntry(op) ==
  /\ op.state = "zip_entries"
  /\ op.n <= Len(op.members)
  /\ LET entry == op.members[op.n]
     IN IF ~IsRomEntry(entry)
        THEN /\ UpdateExtract(op, [op EXCEPT !.n = op.n + 1,
                                             !.readEntries = @ + 1])
             /\ UNCHANGED << tempDirs, faults >>
        ELSE \/ /\ tempDirs' = WriteFile(tempDirs, op.tempDir, entry.name, entry.data)
                /\ UpdateExtract(op, [op EXCEPT !.n = op.n + 1,
                                                !.readEntries = @ + 1,
                                                !.extractedFiles =
                                                  Append(@, ExtractedFile(op, op.n))])
                /\ UNCHANGED faults
             \/ /\ CanFail
                /\ faults' = faults + 1
                /\ UpdateExtract(op, [op EXCEPT !.n = op.n + 1,
                                                !.readEntries = @ + 1])
                /\ UNCHANGED tempDirs
  /\ UNCHANGED awaited

\* the write stream of a ROM member emits "error": the "error" handler warns
\* and calls readEntry; the stream is then destroyed and emits "close", whose
\* handler records the member and calls readEntry again.  The file is absent
\* when the stream could not be opened and cut short when a write failed.
\* The two reads of the central directory start at the same cursor: the
\* iteration goes on with the next entry, or the archive reports an error.
ZipWriteError(op) ==
  /\ op.state = "zip_entries"
  /\ op.n <= Len(op.members)
  /\ IsRomEntry(op.members[op.n])
  /\ CanFail
  /\ faults' = faults + 1
  /\ LET entry == op.members[op.n]
         closed == [op EXCEPT !.n = op.n + 1,
                              !.readEntries = @ + 2,
                              !.writeErrors = @ \cup { op.n },
                              !.extractedFiles = Append(@, ExtractedFile(op, op.n))]
     IN /\ \/ UNCHANGED tempDirs
           \/ tempDirs' = WriteFile(tempDirs, op.tempDir, entry.name,
                                    Data(entry.data.id, 0))
        /\ \/ /\ UpdateExtract(op, closed)
              /\ UNCHANGED awaited
           \/ /\ op.n < Len(op.members)
              /\ SettleExtract(op, Rejected(Err("ZIP extraction error: ",
                                                "invalid central directory file header signature")))

\* zipfile "end" resolving without removing the empty directory
ZipEndKeepsDir(op) ==
  /\ op.state = "zip_entries"
  /\ op.n > Len(op.members)
  /\ SettleExtract(op, Resolved(op.extractedFiles))
  /\ UNCHANGED << tempDirs, faults >>

\* zipfile "end"
ZipEnd(op) ==
  /\ op.state = "zip_entries"
  /\ op.n > Len(op.members)
  /\ IF op.extractedFiles = <<>>
     THEN /\ tempDirs' = RmDir(tempDirs, op.tempDir)
          /\ SettleExtract(op, Resolved(<<>>))
     ELSE /\ SettleExtract(op, Resolved(op.extractedFiles))
          /\ UNCHANGED tempDirs
  /\ UNCHANGED faults

\* zipfile "error"
ZipError(op) ==
  /\ op.state = "zip_entries"
  /\ CanFail
  /\ faults' = faults + 1
  /\ SettleExtract(op, Rejected(Err("ZIP extraction error: ", "bad entry")))
  /\ UNCHANGED tempDirs

\* a catch block that rethrows without removing the directory
AdapterCatchKeepsDir(op) ==
  /\ CanFail
  /\ faults' = faults + 1
  /\ SettleExtract(op, Rejected(RmSyncCatchError))
  /\ UNCHANGED tempDirs

\* the catch block of the 7z and rar adapters: rmSync removes the directory,
\* then .catch is read from its undefined result
AdapterCatch(op) ==
  /\ CanFail
  /\ faults' = faults + 1
  /\ tempDirs' = RmDir(tempDirs, op.tempDir)
  /\ SettleExtract(op, Rejected(RmSyncCatchError))

RECURSIVE RomEntryIdx(_, _)
\* positions n.. of the members that are files with a ROM extension
RomEntryIdx(members, n) ==
  IF n > Len(members) THEN <<>>
  ELSE (IF ~members[n].isDir /\ IsRomEntry(members[n]) THEN <<n>> ELSE <<>>)
       \o RomEntryIdx(members, n + 1)

RECURSIVE HeaderIdx(_, _)
\* positions n.. of the members with a ROM extension
HeaderIdx(members, n) ==
  IF n > Len(members) THEN <<>>
  ELSE (IF IsRomEntry(members[n]) THEN <<n>> ELSE <<>>)
       \o HeaderIdx(members, n + 1)

RECURSIVE WriteAll(_, _, _, _)
\* the members at positions idxs written to dir in order, each under its
\* base name
WriteAll(fs, dir, members, idxs) ==
  IF idxs = <<>> THEN fs
  ELSE WriteAll(WriteFile(fs, dir, members[Head(idxs)].name, members[Head(idxs)].data),
                dir, members, Tail(idxs))

ExtractedAll(op, idxs) == [x \in 1..Len(idxs) |-> ExtractedFile(op, idxs[x])]

\* Seven.list ends: without ROM entries the directory is removed and the
\* result is empty, else Seven.extract starts
SevenList(op) ==
  /\ op.state = "7z_list"
  /\ \/ /\ IF RomEntryIdx(op.members, 1) = <<>>
           THEN /\ tempDirs' = RmDir(tempDirs, op.tempDir)
                /\ SettleExtract(op, Resolved(<<>>))
           ELSE /\ UpdateExtract(op, [op EXCEPT !.state = "7z_extract"])
                /\ UNCHANGED << tempDirs, awaited >>
        /\ UNCHANGED faults
     \/ AdapterCatch(op)

\* Seven.extract ends: the ROM entries found in tempDir are returned
SevenExtract(op) ==
  /\ op.state = "7z_extract"
  /\ \/ /\ LET idxs == RomEntryIdx(op.members, 1)
           IN /\ tempDirs' = WriteAll(tempDirs, op.tempDir, op.members, idxs)
              /\ SettleExtract(op, Resolved(ExtractedAll(op, idxs)))
        /\ UNCHANGED faults
     \/ AdapterCatch(op)

\* createExtractorFromData settles and every ROM header is extracted and
\* written; a failure of readFileSync, of the extractor or of a write ends in
\* the catch block
RarExtract(op) ==
  /\ op.state = "rar_create"
  /\ \/ /\ LET idxs == HeaderIdx(op.members, 1)
           IN IF idxs = <<>>
              THEN /\ tempDirs' = RmDir(tempDirs, op.tempDir)
                   /\ SettleExtract(op, Resolved(<<>>))
              ELSE /\ tempDirs' = WriteAll(tempDirs, op.tempDir, op.members, idxs)
                   /\ SettleExtract(op, Resolved(ExtractedAll(op, idxs)))
        /\ UNCHANGED faults
     \/ AdapterCatch(op)

(***************************************************************************)
(* Scan orchestrator: scanDirectory.                                       *)
(***************************************************************************)
\* AwaitDone of a call that is not awaited
AwaitSkipped == TRUE

\* the await of scanDirectory resumes once the awaited promise has settled
AwaitDone == awaited.state # "pending"

Origin(name, member) == [file |-> name, member |-> member]

\* Push at the front of the list
PushFront(rec, origin) ==
  /\ results' = <<rec>> \o results
  /\ origins' = <<origin>> \o origins

Push(rec, origin) ==
  /\ results' = Append(results, rec)
  /\ origins' = Append(origins, origin)

\* ErrorResult keeping a digest next to the error
ErrorResultWithHash(filename, path, message) ==
  [filename |-> filename, path |-> path, hash |-> Digest("", <<>>), error |-> message]

ErrorResult(filename, path, message) ==
  [filename |-> filename, path |-> path, hash |-> Null, error |-> message]

\* where the loops stand once ROM file n is the next one to process
RomLoopPc(roms, archives, n) ==
  IF n <= Len(roms) THEN "roms"
  ELSE IF archives # <<>> THEN "archives" ELSE "cleanup"

\* where the loops stand once archive n is the next one to process
ArchiveLoopPc(n) == IF n <= Len(archiveFiles) THEN "archives" ELSE "cleanup"

\* Validate without the isDirectory test
ValidateExistsOnly ==
  /\ pc = "validate"
  /\ IF root = "missing"
     THEN /\ pc' = "failed"
          /\ thrown' = Err("Directory not found: ", RootDir)
     ELSE /\ pc' = "discover"
          /\ UNCHANGED thrown
  /\ UNCHANGED << root, disk, romFiles, archiveFiles, i, j, k, extractedROMs,
                  fileStats, results, origins, tempDirsToCleanup, tempDirs,
                  nTemp, hashOps, extractOps, awaited, now, faults, extractLog,
                  hashLog, debug, diagnostics, apartVars >>

Validate ==
  /\ pc = "validate"
  /\ IF root = "missing"
     THEN /\ pc' = "failed"
          /\ thrown' = Err("Directory not found: ", RootDir)
     ELSE IF root # "dir"
     THEN /\ pc' = "failed"
          /\ thrown' = Err("Not a directory: ", RootDir)
     ELSE /\ pc' = "discover"
          /\ UNCHANGED thrown
  /\ UNCHANGED << root, disk, romFiles, archiveFiles, i, j, k, extractedROMs,
                  fileStats, results, origins, tempDirsToCleanup, tempDirs,
                  nTemp, hashOps, extractOps, awaited, now, faults >>
  /\ UNCHANGED << extractLog, hashLog, debug, diagnostics, apartVars >>

DiscoverIn(d) ==
  /\ pc = "discover"
  /\ LET foundFiles == findRomAndArchiveFiles(disk)
     IN /\ romFiles' = filterRom(foundFiles)
        /\ archiveFiles' = filterArchive(foundFiles)
        /\ pc' = RomLoopPc(filterRom(foundFiles), filterArchive(foundFiles), 1)
  /\ UNCHANGED << root, disk, i, j, k, extractedROMs, fileStats, results,
                  origins, tempDirsToCleanup, tempDirs, nTemp, hashOps,
                  extractOps, awaited, now, faults, thrown >>
  /\ UNCHANGED << extractLog, hashLog >>

\* the [DEBUG] lines of the walker: one kind for an entry passed over, one
\* for a directory that cannot be read
RECURSIVE walkDiagnostics(_, _)
walkDiagnostics(entries, n) ==
  IF n > Len(entries) THEN {}
  ELSE LET entry == entries[n]
       IN (IF entry.type = "unreadable" THEN { "Skipping" }
           ELSE IF entry.type = "unreadable dir" THEN { "Cannot read directory" }
           ELSE IF entry.type = "dir" THEN walkDiagnostics(entry.members, 1)
           ELSE {})
          \cup walkDiagnostics(entries, n + 1)

\* scanDirectory from the validation of the path to the start of the loops,
\* with the [DEBUG] lines of the walker
Discover ==
  /\ DiscoverIn(debug)
  /\ DebugLog(debug, walkDiagnostics(disk, 1))
  /\ UNCHANGED << debug, apartVars >>

\* one iteration of the ROM loop up to the await of calculateMD5
RomBegin ==
  /\ pc = "roms"
  /\ LET fileInfo == romFiles[i]
         filePath == fileInfo.filePath
         displayName == fileInfo.relativePath
         origin == Origin(fileInfo.filename, 0)
         skip(message) ==
           /\ Push(ErrorResult(displayName, filePath, message), origin)
           /\ i' = i + 1
           /\ pc' = RomLoopPc(romFiles, archiveFiles, i + 1)
           /\ UNCHANGED << hashOps, fileStats >>
     IN \/ /\ FileAt(filePath).type = "file"
           /\ hashOps' = hashOps \cup { NewHashOp(filePath) }
           /\ fileStats' = FileAt(filePath).data.size
           /\ pc' = "rom_await"
           /\ UNCHANGED << i, results, origins, faults >>
        \/ /\ CanFail
           /\ faults' = faults + 1
           /\ \/ skip(Err("Cannot stat file: ", "ENOENT"))
              \/ skip(Err("Not a regular file", ""))
              \/ skip(Err("onFileStart failed", ""))
  /\ UNCHANGED << root, disk, romFiles, archiveFiles, j, k, extractedROMs,
                  tempDirsToCleanup, tempDirs, nTemp, extractOps, awaited,
                  now, thrown >>
  /\ UNCHANGED << extractLog, hashLog, debug, diagnostics, apartVars >>

\* a ROM loop whose error records carry the stack trace when DEBUG is set
RomResumeInVerbose(d) ==
  /\ pc = "rom_await"
  /\ AwaitDone
  /\ LET fileInfo == romFiles[i]
         filePath == fileInfo.filePath
         displayName == fileInfo.relativePath
         origin == Origin(fileInfo.filename, 0)
     IN IF awaited.state = "rejected"
        THEN /\ Push(ErrorResult(displayName, filePath,
                                 IF d THEN Err("Stack trace", awaited.value)
                                 ELSE awaited.value), origin)
             /\ UNCHANGED faults
        ELSE \/ /\ Push([filename |-> displayName, path |-> filePath,
                         hash |-> awaited.value, size |-> fileStats], origin)
                /\ UNCHANGED faults
             \/ /\ CanFail
                /\ faults' = faults + 1
                /\ Push(ErrorResult(displayName, filePath,
                                    Err("onFileComplete failed", "")), origin)
  /\ awaited' = Pending
  /\ i' = i + 1
  /\ pc' = RomLoopPc(romFiles, archiveFiles, i + 1)
  /\ UNCHANGED << root, disk, romFiles, archiveFiles, j, k, extractedROMs,
                  fileStats, tempDirsToCleanup, tempDirs, nTemp, hashOps,
                  extractOps, now, thrown >>
  /\ hashLog' = Null
  /\ UNCHANGED extractLog

\* the ROM loop after the await of calculateMD5, d being process.env.DEBUG as
\* the catch block reads it: what the loop records is the same either way
RomResumeIn(d) ==
  /\ pc = "rom_await"
  /\ AwaitDone
  /\ LET fileInfo == romFiles[i]
         filePath == fileInfo.filePath
         displayName == fileInfo.relativePath
         origin == Origin(fileInfo.filename, 0)
     IN IF awaited.state = "rejected"
        THEN /\ Push(ErrorResult(displayName, filePath, awaited.value), origin)
             /\ UNCHANGED faults
        ELSE \/ /\ Push([filename |-> displayName, path |-> filePath,
                         hash |-> awaited.value, size |-> fileStats], origin)
                /\ UNCHANGED faults
             \/ /\ CanFail
                /\ faults' = faults + 1
                /\ Push(ErrorResult(displayName, filePath,
                                    Err("onFileComplete failed", "")), origin)
  /\ awaited' = Pending
  /\ i' = i + 1
  /\ pc' = RomLoopPc(romFiles, archiveFiles, i + 1)
  /\ UNCHANGED << root, disk, romFiles, archiveFiles, j, k, extractedROMs,
                  fileStats, tempDirsToCleanup, tempDirs, nTemp, hashOps,
                  extractOps, now, thrown >>
  /\ hashLog' = Null
  /\ UNCHANGED extractLog

\* the ROM loop after the await of calculateMD5, with the stack trace its
\* catch block writes under DEBUG
RomResume ==
  /\ RomResumeIn(debug)
  /\ DebugLog(debug, IF "error" \in DOMAIN Last(results')
                     THEN { "Stack trace" } ELSE {})
  /\ UNCHANGED << debug, apartVars >>

\* one iteration of the archive loop up to the await of extractROMsFromArchive
ArchiveBegin ==
  /\ pc = "archives"
  /\ LET fileInfo == archiveFiles[j]
         filename == fileInfo.filename
         archivePath == fileInfo.filePath
         origin == Origin(filename, 0)
         op == NewExtractOp(archivePath)
         skip(message) ==
           /\ Push(ErrorResult(<<filename, "(archive)">>, archivePath, message), origin)
           /\ j' = j + 1
           /\ pc' = ArchiveLoopPc(j + 1)
           /\ UNCHANGED << extractOps, awaited, tempDirs, nTemp >>
     IN \/ /\ FileAt(archivePath).type = "file"
           /\ IF op.state = "unsupported"
              THEN /\ awaited' = Rejected(Err("Unsupported archive format: ",
                                              extname(archivePath.name)))
                   /\ UNCHANGED << extractOps, tempDirs, nTemp >>
              ELSE /\ extractOps' = extractOps \cup {op}
                   /\ tempDirs' = MkDir(tempDirs, op.tempDir)
                   /\ nTemp' = nTemp + 1
                   /\ UNCHANGED awaited
           /\ pc' = "archive_await"
           /\ UNCHANGED << j, results, origins, faults >>
        \/ /\ CanFail
           /\ faults' = faults + 1
           /\ \/ skip(Err("Cannot stat archive: ", "ENOENT"))
              \/ skip(Err("Not a regular file", ""))
  /\ UNCHANGED << root, disk, romFiles, archiveFiles, i, k, extractedROMs,
                  fileStats, tempDirsToCleanup, hashOps, now, thrown >>
  /\ UNCHANGED << extractLog, hashLog, debug, diagnostics, apartVars >>

\* NoRomsFound with the comparison off by one
NoRomsFoundOffByOne(extracted) == Len(extracted) <= 1

\* extractedROMs.length === 0
NoRomsFound(extracted) == Len(extracted) = 0

\* the archive loop after the await of extractROMsFromArchive
ArchiveResume ==
  /\ pc = "archive_await"
  /\ AwaitDone
  /\ LET fileInfo == archiveFiles[j]
         archivePath == fileInfo.filePath
         displayName == fileInfo.relativePath
         origin == Origin(fileInfo.filename, 0)
         next ==
           /\ j' = j + 1
           /\ pc' = ArchiveLoopPc(j + 1)
           /\ UNCHANGED << k, extractedROMs, tempDirsToCleanup >>
     IN IF awaited.state = "rejected"
        THEN /\ Push(ErrorResult(displayName \o <<"(archive)">>, archivePath,
                                 awaited.value), origin)
             /\ next
             /\ UNCHANGED extractLog
             /\ DebugLog(debug, { "Stack trace" })
        ELSE /\ UNCHANGED diagnostics
             /\ extractLog' = Append(extractLog, [file |-> fileInfo.filename,
                                                  yielded |-> awaited.value])
             /\ IF NoRomsFound(awaited.value)
                THEN /\ Push(ErrorResult(displayName \o <<"(archive)">>, archivePath,
                                         Err("No ROM files found in archive", "")),
                             origin)
                     /\ next
                ELSE /\ extractedROMs' = awaited.value
                     /\ tempDirsToCleanup' =
                          Append(tempDirsToCleanup, awaited.value[1].tempDir)
                     /\ k' = 1
                     /\ pc' = "members"
                     /\ UNCHANGED << j, results, origins >>
  /\ awaited' = Pending
  /\ UNCHANGED << root, disk, romFiles, archiveFiles, i, fileStats, tempDirs,
                  nTemp, hashOps, extractOps, now, faults, hashLog, thrown,
                  debug, apartVars >>

\* where the loops stand once member n of the current archive is next
MemberLoopPc(n) ==
  IF n <= Len(extractedROMs) THEN "members" ELSE ArchiveLoopPc(j + 1)

\* one iteration of the member loop up to the await of calculateMD5
MemberBegin ==
  /\ pc = "members"
  /\ LET fileInfo == archiveFiles[j]
         archivePath == fileInfo.filePath
         rom == extractedROMs[k]
         romDisplayName == fileInfo.relativePath \o <<rom.name>>
         origin == Origin(fileInfo.filename, rom.idx)
         skip(message) ==
           /\ Push(ErrorResult(romDisplayName, archivePath, message), origin)
           /\ k' = k + 1
           /\ pc' = MemberLoopPc(k + 1)
           /\ j' = IF k + 1 <= Len(extractedROMs) THEN j ELSE j + 1
           /\ UNCHANGED << hashOps, fileStats >>
     IN \/ /\ FileAt(rom.path).type = "file"
           /\ hashOps' = hashOps \cup { NewHashOp(rom.path) }
           /\ fileStats' = FileAt(rom.path).data.size
           /\ pc' = "member_await"
           /\ UNCHANGED << j, k, results, origins, faults >>
        \/ /\ CanFail
           /\ faults' = faults + 1
           /\ \/ skip(Err("Cannot stat extracted ROM: ", "ENOENT"))
              \/ skip(Err("onFileStart failed", ""))
  /\ UNCHANGED << root, disk, romFiles, archiveFiles, i, extractedROMs,
                  tempDirsToCleanup, tempDirs, nTemp, extractOps, awaited,
                  now, thrown >>
  /\ UNCHANGED << extractLog, hashLog, debug, diagnostics, apartVars >>

\* the member loop after the await of calculateMD5
MemberResume ==
  /\ pc = "member_await"
  /\ AwaitDone
  /\ LET fileInfo == archiveFiles[j]
         archivePath == fileInfo.filePath
         displayName == fileInfo.relativePath
         rom == extractedROMs[k]
         romDisplayName == displayName \o <<rom.name>>
         origin == Origin(fileInfo.filename, rom.idx)
     IN IF awaited.state = "rejected"
        THEN /\ Push(ErrorResult(romDisplayName, archivePath, awaited.value), origin)
             /\ UNCHANGED faults
        ELSE \/ /\ Push([filename |-> romDisplayName, path |-> archivePath,
                         hash |-> awaited.value, size |-> fileStats,
                         archiveName |-> displayName, romName |-> rom.name], origin)
                /\ UNCHANGED faults
             \/ /\ CanFail
                /\ faults' = faults + 1
                /\ Push(ErrorResult(romDisplayName, archivePath,
                                    Err("onFileComplete failed", "")), origin)
  /\ awaited' = Pending
  /\ k' = k + 1
  /\ pc' = MemberLoopPc(k + 1)
  /\ j' = IF k + 1 <= Len(extractedROMs) THEN j ELSE j + 1
  /\ UNCHANGED << root, disk, romFiles, archiveFiles, i, extractedROMs,
                  fileStats, tempDirsToCleanup, tempDirs, nTemp, hashOps,
                  extractOps, now, thrown >>
  /\ hashLog' = Null
  /\ UNCHANGED extractLog
  /\ UNCHANGED << debug, diagnostics, apartVars >>

RECURSIVE RmAll(_, _)
RmAll(fs, dirs) ==
  IF dirs = <<>> THEN fs
  ELSE RmAll(IF Head(dirs) \in DOMAIN fs THEN RmDir(fs, Head(dirs)) ELSE fs, Tail(dirs))

\* the cleanup loop over tempDirsToCleanup, and the return of results
CleanupIn(d) ==
  /\ pc = "cleanup"
  /\ tempDirs' = RmAll(tempDirs, tempDirsToCleanup)
  /\ pc' = "done"
  /\ UNCHANGED << root, disk, romFiles, archiveFiles, i, j, k, extractedROMs,
                  fileStats, results, origins, tempDirsToCleanup, nTemp,
                  hashOps, extractOps, awaited, now, faults, thrown >>
  /\ UNCHANGED << extractLog, hashLog >>

\* the cleanup loop with its [DEBUG] line for each directory removed
Cleanup ==
  /\ CleanupIn(debug)
  /\ DebugLog(debug, IF \E n \in 1..Len(tempDirsToCleanup) :
                          tempDirsToCleanup[n] \in DOMAIN tempDirs
                     THEN { "Cleaned up temp directory" } ELSE {})
  /\ UNCHANGED << debug, apartVars >>

(***************************************************************************)
(* The scan as a state machine.                                            *)
(***************************************************************************)
Init ==
  /\ root \in { "missing", "file", "dir" }
  /\ disk \in IF root = "dir" THEN Disks ELSE { <<>> }
  /\ pc = "validate"
  /\ romFiles = <<>>
  /\ archiveFiles = <<>>
  /\ i = 1
  /\ j = 1
  /\ k = 1
  /\ extractedROMs = <<>>
  /\ fileStats = 0
  /\ results = <<>>
  /\ origins = <<>>
  /\ tempDirsToCleanup = <<>>
  /\ tempDirs = [d \in {} |-> EmptyDir]
  /\ nTemp = 0
  /\ hashOps = {}
  /\ extractOps = {}
  /\ awaited = Pending
  /\ now = 0
  /\ faults = 0
  /\ extractLog = <<>>
  /\ hashLog = Null
  /\ thrown = Null
  /\ debug = FALSE
  /\ diagnostics = {}
  /\ ApartIdle

hashFrame ==
  UNCHANGED << root, disk, pc, romFiles, archiveFiles, i, j, k, extractedROMs,
               fileStats, results, origins, tempDirsToCleanup, tempDirs,
               nTemp, extractOps, extractLog, thrown, debug, apartVars >>

extractFrame ==
  UNCHANGED << root, disk, pc, romFiles, archiveFiles, i, j, k, extractedROMs,
               fileStats, results, origins, tempDirsToCleanup, nTemp,
               hashOps, now, extractLog, hashLog, thrown, debug, diagnostics,
               apartVars >>

OnHashStat == \E op \in hashOps : HashStat(op) /\ hashFrame

OnHashOpen == \E op \in hashOps : HashOpen(op) /\ hashFrame

OnHashRead == \E op \in hashOps : HashRead(op) /\ hashFrame

OnHashData == \E op \in hashOps : HashData(op) /\ hashFrame

OnHashEnd == \E op \in hashOps : HashEnd(op) /\ hashFrame

OnHashStreamError == \E op \in hashOps : HashStreamError(op) /\ hashFrame

OnHashTimeout == \E op \in hashOps : HashTimeout(op) /\ hashFrame

Clock == TimePasses /\ hashFrame

OnZipOpen == \E op \in extractOps : ZipOpen(op) /\ extractFrame

OnZipEntry == \E op \in extractOps : ZipEntry(op) /\ extractFrame

OnZipEnd == \E op \in extractOps : ZipEnd(op) /\ extractFrame

OnZipError == \E op \in extractOps : ZipError(op) /\ extractFrame

OnZipWriteError == \E op \in extractOps : ZipWriteError(op) /\ extractFrame

OnSevenList == \E op \in extractOps : SevenList(op) /\ extractFrame

OnSevenExtract == \E op \in extractOps : SevenExtract(op) /\ extractFrame

OnRarExtract == \E op \in extractOps : RarExtract(op) /\ extractFrame

Next ==
  \/ Validate
  \/ Discover
  \/ RomBegin
  \/ RomResume
  \/ ArchiveBegin
  \/ ArchiveResume
  \/ MemberBegin
  \/ MemberResume
  \/ Cleanup
  \/ OnHashStat
  \/ OnHashOpen
  \/ OnHashRead
  \/ OnHashData
  \/ OnHashEnd
  \/ OnHashStreamError
  \/ OnHashTimeout
  \/ Clock
  \/ OnZipOpen
  \/ OnZipEntry
  \/ OnZipEnd
  \/ OnZipError
  \/ OnZipWriteError
  \/ OnSevenList
  \/ OnSevenExtract
  \/ OnRarExtract

Spec == Init /\ [][Next]_vars

(***************************************************************************)
(* calculateMD5 called on its own, with onProgress supplied, on one file   *)
(* of each size class of the buffer-size step function.                    *)
(***************************************************************************)
HashSizes ==
  { 0, 1, 64 * KB, 64 * KB + 1, 10 * MB + 1, 100 * MB, 100 * MB + 1,
    500 * MB + 1, GB + 1, 2 * GB + 1, 4 * GB + 1 }

HashInputs ==
  { <<>> } \cup { << Entry(<<"image", "iso">>, "file", Data("I", size), <<>>) >> :
                  size \in HashSizes }

InitHash ==
  /\ root = "dir"
  /\ now = 0
  /\ disk \in HashInputs
  /\ pc = "hashing"
  /\ romFiles = <<>>
  /\ archiveFiles = <<>>
  /\ i = 1
  /\ j = 1
  /\ k = 1
  /\ extractedROMs = <<>>
  /\ fileStats = 0
  /\ results = <<>>
  /\ origins = <<>>
  /\ tempDirsToCleanup = <<>>
  /\ tempDirs = [d \in {} |-> EmptyDir]
  /\ nTemp = 0
  /\ hashOps = { NewHashOp(Path(RootDir, <<"image", "iso">>)) }
  /\ extractOps = {}
  /\ awaited = Pending
  /\ faults = 0
  /\ extractLog = <<>>
  /\ hashLog = Null
  /\ thrown = Null
  /\ debug = FALSE
  /\ diagnostics = {}
  /\ ApartIdle

NextHash ==
  \/ OnHashStat
  \/ OnHashOpen
  \/ OnHashRead
  \/ OnHashData
  \/ OnHashEnd
  \/ OnHashStreamError
  \/ OnHashTimeout
  \/ Clock

SpecHash == InitHash /\ [][NextHash]_vars

(***************************************************************************)
(* The classifier applied by the discovery step to names of every shape:   *)
(* no extension, a dot file, a trailing dot, each extension of the tables  *)
(* and some outside them, in lower and upper case, alone and after an      *)
(* earlier extension.                                                      *)
(***************************************************************************)
ExtensionTokens ==
  {
    "nes", "fds", "sfc", "smc", "gb", "gbc", "gba", "nds", "n64", "z64",
    "v64", "gcm", "gcz", "rvz", "wbfs", "wad", "wux", "wud", "3ds", "cia",
    "nsp", "xci", "md", "smd", "gen", "bin", "gg", "sms", "32x", "sg",
    "gdi", "cdi", "chd", "iso", "cue", "img", "cso", "pbp", "pkg", "p3t",
    "a26", "a78", "lnx", "jag", "j64", "pce", "ngp", "ngc", "ws", "wsc",
    "col", "int", "vec", "min", "vb", "rom", "zip", "7z", "rar", "txt",
    "tar", "gz", "jpg" }

\* an extension and the same extension in another letter case
CasePairs ==
  {
    <<"nes", "NES">>, <<"fds", "FDS">>, <<"sfc", "SFC">>, <<"smc", "SMC">>,
    <<"gb", "GB">>, <<"gbc", "GBC">>, <<"gba", "GBA">>, <<"nds", "NDS">>,
    <<"n64", "N64">>, <<"z64", "Z64">>, <<"v64", "V64">>, <<"gcm", "GCM">>,
    <<"gcz", "GCZ">>, <<"rvz", "RVZ">>, <<"wbfs", "WBFS">>,
    <<"wad", "WAD">>, <<"wux", "WUX">>, <<"wud", "WUD">>, <<"3ds", "3DS">>,
    <<"cia", "CIA">>, <<"nsp", "NSP">>, <<"xci", "XCI">>, <<"md", "MD">>,
    <<"smd", "SMD">>, <<"gen", "GEN">>, <<"bin", "BIN">>, <<"gg", "GG">>,
    <<"sms", "SMS">>, <<"32x", "32X">>, <<"sg", "SG">>, <<"gdi", "GDI">>,
    <<"cdi", "CDI">>, <<"chd", "CHD">>, <<"iso", "ISO">>, <<"cue", "CUE">>,
    <<"img", "IMG">>, <<"cso", "CSO">>, <<"pbp", "PBP">>, <<"pkg", "PKG">>,
    <<"p3t", "P3T">>, <<"a26", "A26">>, <<"a78", "A78">>, <<"lnx", "LNX">>,
    <<"jag", "JAG">>, <<"j64", "J64">>, <<"pce", "PCE">>, <<"ngp", "NGP">>,
    <<"ngc", "NGC">>, <<"ws", "WS">>, <<"wsc", "WSC">>, <<"col", "COL">>,
    <<"int", "INT">>, <<"vec", "VEC">>, <<"min", "MIN">>, <<"vb", "VB">>,
    <<"rom", "ROM">>, <<"zip", "ZIP">>, <<"7z", "7Z">>, <<"rar", "RAR">>,
    <<"txt", "TXT">>, <<"tar", "TAR">>, <<"gz", "GZ">>, <<"jpg", "JPG">>,
    <<"sfc", "Sfc">>, <<"zip", "Zip">>, <<"nes", "Nes">>, <<"gb", "Gb">>,
    <<"rar", "Rar">>, <<"iso", "Iso">> }

NamedFile(name) == Entry(name, "file", Data("x", 1), <<>>)

ClassifyDisks ==
  { << NamedFile(<<"game">>) >> }
  \cup { << NamedFile(<<"", t>>) >> : t \in ExtensionTokens }
  \cup { << NamedFile(<<"game", t>>) >> : t \in ExtensionTokens \cup { "" } }
  \cup { << NamedFile(<<"game", c[1]>>), NamedFile(<<"game", c[2]>>) >> :
         c \in CasePairs }
  \cup { << NamedFile(<<"game", t>>), NamedFile(<<"game", u, t>>) >> :
         t \in ExtensionTokens, u \in ExtensionTokens }

InitClassify ==
  /\ root = "dir"
  /\ disk \in ClassifyDisks
  /\ pc = "discover"
  /\ romFiles = <<>>
  /\ archiveFiles = <<>>
  /\ i = 1
  /\ j = 1
  /\ k = 1
  /\ extractedROMs = <<>>
  /\ fileStats = 0
  /\ results = <<>>
  /\ origins = <<>>
  /\ tempDirsToCleanup = <<>>
  /\ tempDirs = [d \in {} |-> EmptyDir]
  /\ nTemp = 0
  /\ hashOps = {}
  /\ extractOps = {}
  /\ awaited = Pending
  /\ now = 0
  /\ faults = 0
  /\ extractLog = <<>>
  /\ hashLog = Null
  /\ thrown = Null
  /\ debug = FALSE
  /\ diagnostics = {}
  /\ ApartIdle

NextClassify == Discover

SpecClassify == InitClassify /\ [][NextClassify]_vars

(***************************************************************************)
(* extractROMsFromArchive called by the archive loop on one archive of     *)
(* each format and shape, up to the moment it returns to its caller.       *)
(***************************************************************************)
MemberLists ==
  { <<>>,
    << Member("", <<"readme", "txt">>, Data("R", 1)) >>,
    << Member("", <<"readme", "txt">>, Data("R", 1)),
       Member("docs", <<"manual", "TXT">>, Data("M", 1)) >>,
    << Member("", <<"zelda", "sfc">>, Data("Y", 2)) >>,
    << Member("", <<"readme", "txt">>, Data("R", 1)),
       Member("usa", <<"sonic", "MD">>, Data("G", 7)) >>,
    << Member("", <<"tetris", "gb">>, Data("E", 70)),
       Member("", <<"zelda", "sfc">>, Data("Y", 2)) >>,
    << Member("a", <<"game", "nes">>, Data("P", 3)),
       Member("b", <<"game", "nes">>, Data("Q", 4)) >> }

ArchiveDisks ==
  { << Entry(<<"pack", ext>>, "file", Data("A", 9), members) >> :
    ext \in { "zip", "7z", "rar" }, members \in MemberLists }

InitExtract ==
  /\ root = "dir"
  /\ disk \in ArchiveDisks
  /\ pc = "archives"
  /\ romFiles = <<>>
  /\ archiveFiles = filterArchive(findRomAndArchiveFiles(disk))
  /\ i = 1
  /\ j = 1
  /\ k = 1
  /\ extractedROMs = <<>>
  /\ fileStats = 0
  /\ results = <<>>
  /\ origins = <<>>
  /\ tempDirsToCleanup = <<>>
  /\ tempDirs = [d \in {} |-> EmptyDir]
  /\ nTemp = 0
  /\ hashOps = {}
  /\ extractOps = {}
  /\ awaited = Pending
  /\ now = 0
  /\ faults = 0
  /\ extractLog = <<>>
  /\ hashLog = Null
  /\ thrown = Null
  /\ debug = FALSE
  /\ diagnostics = {}
  /\ ApartIdle

NextExtract ==
  \/ ArchiveBegin
  \/ OnZipOpen
  \/ OnZipEntry
  \/ OnZipEnd
  \/ OnZipError
  \/ OnZipWriteError
  \/ OnSevenList
  \/ OnSevenExtract
  \/ OnRarExtract

SpecExtract == InitExtract /\ [][NextExtract]_vars

(***************************************************************************)
(* The walker applied by the discovery step to trees three levels deep,    *)
(* with directories that cannot be read and entries whose type cannot be   *)
(* read.                                                                   *)
(***************************************************************************)
WalkFiles ==
  { NamedFile(<<"a", "nes">>), NamedFile(<<"b", "zip">>), NamedFile(<<"c", "txt">>),
    Entry(<<"d", "nes">>, "unreadable", Data("", 0), <<>>) }

\* a directory that readdirSync lists
Dir(name, entries) == Entry(<<name>>, "dir", Data("", 0), entries)

\* a directory that readdirSync fails on; entries is what it holds
UnreadableDir(name, entries) == Entry(<<name>>, "unreadable dir", Data("", 0), entries)

UpToTwo(S) == { <<>> } \cup { <<x>> : x \in S } \cup { <<x, y>> : x \in S, y \in S }

WalkDeepDirs ==
  { Dir("deep", << NamedFile(<<"e", "gb">>) >>),
    UnreadableDir("sealed", << NamedFile(<<"f", "gb">>) >>) }

WalkDirs ==
  { Dir("sub", entries) : entries \in UpToTwo(WalkFiles \cup WalkDeepDirs) }
  \cup { UnreadableDir("locked", entries) :
         entries \in UpToTwo(WalkFiles \cup WalkDeepDirs) }

WalkDisks == UpToTwo(WalkFiles \cup WalkDirs)

InitWalk ==
  /\ root = "dir"
  /\ disk \in WalkDisks
  /\ pc = "discover"
  /\ romFiles = <<>>
  /\ archiveFiles = <<>>
  /\ i = 1
  /\ j = 1
  /\ k = 1
  /\ extractedROMs = <<>>
  /\ fileStats = 0
  /\ results = <<>>
  /\ origins = <<>>
  /\ tempDirsToCleanup = <<>>
  /\ tempDirs = [d \in {} |-> EmptyDir]
  /\ nTemp = 0
  /\ hashOps = {}
  /\ extractOps = {}
  /\ awaited = Pending
  /\ now = 0
  /\ faults = 0
  /\ extractLog = <<>>
  /\ hashLog = Null
  /\ thrown = Null
  /\ debug = FALSE
  /\ diagnostics = {}
  /\ ApartIdle

NextWalk == Discover

SpecWalk == InitWalk /\ [][NextWalk]_vars

(***************************************************************************)
(* The scan with and without DEBUG, of directories that make every [DEBUG] *)
(* line happen: a ROM file, a file above 10 MB, an archive of each format   *)
(* and a directory that cannot be read.                                    *)
(***************************************************************************)
DebugListing ==
  << Listing[2], Listing[3], Listing[5], Listing[6], Listing[8],
     UnreadableDir("lost", <<>>) >>

DebugDisks ==
  { Keep(DebugListing, keep, 1) :
      keep \in { c \in SUBSET (1..Len(DebugListing)) : Cardinality(c) <= MaxFiles } }

InitDebug ==
  /\ root = "dir"
  /\ disk \in DebugDisks
  /\ pc = "validate"
  /\ romFiles = <<>>
  /\ archiveFiles = <<>>
  /\ i = 1
  /\ j = 1
  /\ k = 1
  /\ extractedROMs = <<>>
  /\ fileStats = 0
  /\ results = <<>>
  /\ origins = <<>>
  /\ tempDirsToCleanup = <<>>
  /\ tempDirs = [d \in {} |-> EmptyDir]
  /\ nTemp = 0
  /\ hashOps = {}
  /\ extractOps = {}
  /\ awaited = Pending
  /\ now = 0
  /\ faults = 0
  /\ extractLog = <<>>
  /\ hashLog = Null
  /\ thrown = Null
  /\ debug \in BOOLEAN
  /\ diagnostics = {}
  /\ ApartIdle

SpecDebug == InitDebug /\ [][Next]_vars

(***************************************************************************)
(* listRomFiles: the names of the ROM files of a directory and of the      *)
(* members of its archives, without extraction.                            *)
(***************************************************************************)
RECURSIVE mapRelativePath(_)
\* romFiles.map((f) => f.relativePath)
mapRelativePath(files) ==
  IF files = <<>> THEN <<>>
  ELSE << Head(files).relativePath >> \o mapRelativePath(Tail(files))

RECURSIVE listZipEntries(_, _, _)
\* the "entry" handler over the entries n.. of a zip: the base name of every
\* entry with a ROM extension, under the archive's display name
listZipEntries(archiveDisplayName, members, n) ==
  IF n > Len(members) THEN <<>>
  ELSE (IF extname(members[n].name) \in ROM_EXTENSIONS
        THEN << archiveDisplayName \o << members[n].name >> >>
        ELSE <<>>)
       \o listZipEntries(archiveDisplayName, members, n + 1)

RECURSIVE listSevenEntries(_, _, _)
\* the loop over the entries Seven.list reported: directories are skipped
listSevenEntries(archiveDisplayName, members, n) ==
  IF n > Len(members) THEN <<>>
  ELSE (IF ~members[n].isDir /\ extname(members[n].name) \in ROM_EXTENSIONS
        THEN << archiveDisplayName \o << members[n].name >> >>
        ELSE <<>>)
       \o listSevenEntries(archiveDisplayName, members, n + 1)

\* the name "*" listRomFiles puts under the display name of a rar archive
Placeholder == << "*" >>

\* romNames of one archive; malformed is whether the container can be read:
\* yauzl reports an error on opening or while reading a malformed zip, and
\* Seven.list emits "error" on a malformed 7z; a rar is not opened
listArchive(fileInfo, malformed) ==
  LET ext == extname(fileInfo.filename)
      members == MembersOf(fileInfo.filePath)
  IN IF ext = ".zip"
     THEN IF malformed THEN <<>> ELSE listZipEntries(fileInfo.relativePath, members, 1)
     ELSE IF ext = ".7z"
     THEN IF malformed THEN <<>> ELSE listSevenEntries(fileInfo.relativePath, members, 1)
     ELSE IF ext = ".rar"
     THEN << fileInfo.relativePath \o << Placeholder >> >>
     ELSE <<>>

listFrame ==
  UNCHANGED << root, disk, i, k, extractedROMs, fileStats, results, origins,
               tempDirsToCleanup, tempDirs, nTemp, hashOps, extractOps, awaited,
               now, extractLog, hashLog, thrown, debug, diagnostics, directory,
               consoles, options, suggestedConsole, suggestLog, selectedConsole,
               prompts, hashMap, scannedRoms, compared, lookups, summary,
               exitCode >>

\* listRomFiles up to its loop over the archives
ListBegin ==
  /\ pc = "list"
  /\ IF root = "missing"
     THEN /\ result' = <<>>
          /\ pc' = "listed"
          /\ UNCHANGED << romFiles, archiveFiles, j >>
     ELSE LET foundFiles == findRomAndArchiveFiles(disk)
          IN /\ romFiles' = filterRom(foundFiles)
             /\ archiveFiles' = filterArchive(foundFiles)
             /\ result' = mapRelativePath(filterRom(foundFiles))
             /\ j' = 1
             /\ pc' = IF filterArchive(foundFiles) # <<>> THEN "list_archives"
                      ELSE "listed"
  /\ UNCHANGED << faults, listLog >>
  /\ listFrame

\* one iteration of the loop over the archives, and the return after the last
ListArchive ==
  /\ pc = "list_archives"
  /\ \E malformed \in BOOLEAN :
       /\ malformed => CanFail
       /\ faults' = IF malformed THEN faults + 1 ELSE faults
       /\ LET romNames == listArchive(archiveFiles[j], malformed)
          IN /\ result' = result \o romNames
             /\ listLog' = Append(listLog, [file |-> archiveFiles[j].filename,
                                            malformed |-> malformed,
                                            contributed |-> romNames])
  /\ j' = j + 1
  /\ pc' = IF j + 1 <= Len(archiveFiles) THEN "list_archives" ELSE "listed"
  /\ UNCHANGED << romFiles, archiveFiles >>
  /\ listFrame

InitList ==
  /\ root \in { "missing", "file", "dir" }
  /\ disk \in IF root = "dir" THEN Disks ELSE { <<>> }
  /\ pc = "list"
  /\ romFiles = <<>>
  /\ archiveFiles = <<>>
  /\ i = 1
  /\ j = 1
  /\ k = 1
  /\ extractedROMs = <<>>
  /\ fileStats = 0
  /\ results = <<>>
  /\ origins = <<>>
  /\ tempDirsToCleanup = <<>>
  /\ tempDirs = [d \in {} |-> EmptyDir]
  /\ nTemp = 0
  /\ hashOps = {}
  /\ extractOps = {}
  /\ awaited = Pending
  /\ now = 0
  /\ faults = 0
  /\ extractLog = <<>>
  /\ hashLog = Null
  /\ thrown = Null
  /\ debug = FALSE
  /\ diagnostics = {}
  /\ ApartIdle

NextList ==
  \/ ListBegin
  \/ ListArchive

SpecList == InitList /\ [][NextList]_vars

(***************************************************************************)
(* suggestConsole: the platform guessed from the folder name and from the  *)
(* extensions of the listed names.  Folder, keyword and platform names are *)
(* sequences of characters, so that String.prototype.includes is the       *)
(* search for a contiguous subsequence.                                    *)
(***************************************************************************)
\* names the listing may hold
MaxNames == 3
\* platforms the platform list may hold
MaxConsoles == 2

\* String.prototype.toLowerCase on one character
lowerChar(c) ==
  CASE c = "A" -> "a"
    [] c = "B" -> "b"
    [] c = "C" -> "c"
    [] c = "D" -> "d"
    [] c = "E" -> "e"
    [] c = "F" -> "f"
    [] c = "G" -> "g"
    [] c = "H" -> "h"
    [] c = "I" -> "i"
    [] c = "J" -> "j"
    [] c = "K" -> "k"
    [] c = "L" -> "l"
    [] c = "M" -> "m"
    [] c = "N" -> "n"
    [] c = "O" -> "o"
    [] c = "P" -> "p"
    [] c = "Q" -> "q"
    [] c = "R" -> "r"
    [] c = "S" -> "s"
    [] c = "T" -> "t"
    [] c = "U" -> "u"
    [] c = "V" -> "v"
    [] c = "W" -> "w"
    [] c = "X" -> "x"
    [] c = "Y" -> "y"
    [] c = "Z" -> "z"
    [] OTHER -> c

\* String.prototype.toLowerCase
lower(s) == [n \in 1..Len(s) |-> lowerChar(s[n])]

RECURSIVE trimStart(_)
trimStart(s) == IF s # <<>> /\ Head(s) = " " THEN trimStart(Tail(s)) ELSE s

RECURSIVE trimEnd(_)
trimEnd(s) ==
  IF s # <<>> /\ Last(s) = " " THEN trimEnd(SubSeq(s, 1, Len(s) - 1)) ELSE s

\* String.prototype.trim
trim(s) == trimEnd(trimStart(s))

\* s.includes(t)
includes(s, t) == \E n \in 0..(Len(s) - Len(t)) : SubSeq(s, n + 1, n + Len(t)) = t

RECURSIVE afterSpaces(_, _)
\* the first position from n on that holds no white space
afterSpaces(s, n) == IF n <= Len(s) /\ s[n] = " " THEN afterSpaces(s, n + 1) ELSE n

RECURSIVE splitFrom(_, _, _)
splitFrom(s, n, word) ==
  IF n > Len(s) THEN << word >>
  ELSE IF s[n] = " " THEN << word >> \o splitFrom(s, afterSpaces(s, n), <<>>)
  ELSE splitFrom(s, n + 1, Append(word, s[n]))

\* s.split(/\s+/): the pieces between the runs of white space
split(s) == splitFrom(s, 1, <<>>)

\* process.cwd()
cwd == << "/", "s", "r", "v", "/", "G", "e", "n", "e", "s", "i", "s" >>

RECURSIVE dropTrailingSlashes(_)
dropTrailingSlashes(s) ==
  IF Len(s) > 1 /\ Last(s) = "/" THEN dropTrailingSlashes(SubSeq(s, 1, Len(s) - 1))
  ELSE s

\* path.resolve(directory): an absolute path is kept, a relative one is
\* taken from the working directory, the empty path is the working directory
resolve(dir) ==
  IF dir = <<>> THEN cwd
  ELSE IF Head(dir) = "/" THEN dropTrailingSlashes(dir)
  ELSE dropTrailingSlashes(cwd \o << "/" >> \o dir)

RECURSIVE basename(_)
\* path.basename of a resolved path: what follows its last separator
basename(p) ==
  IF p = <<>> \/ Last(p) = "/" THEN <<>>
  ELSE Append(basename(SubSeq(p, 1, Len(p) - 1)), Last(p))

\* folderKeywords
folderKeywords ==
  << << "n", "e", "s" >>,
     << "n", "i", "n", "t", "e", "n", "d", "o", " ", "e", "n", "t", "e", "r", "t", "a", "i", "n", "m", "e", "n", "t", " ", "s", "y", "s", "t", "e", "m" >>,
     << "s", "n", "e", "s" >>,
     << "s", "u", "p", "e", "r", " ", "n", "i", "n", "t", "e", "n", "d", "o" >>,
     << "s", "u", "p", "e", "r", " ", "n", "i", "n", "t", "e", "n", "d", "o", " ", "e", "n", "t", "e", "r", "t", "a", "i", "n", "m", "e", "n", "t", " ", "s", "y", "s", "t", "e", "m" >>,
     << "n", "6", "4" >>,
     << "n", "i", "n", "t", "e", "n", "d", "o", " ", "6", "4" >>,
     << "g", "a", "m", "e", "c", "u", "b", "e" >>,
     << "g", "a", "m", "e", " ", "c", "u", "b", "e" >>,
     << "n", "g", "c" >>,
     << "g", "c" >>,
     << "w", "i", "i" >>,
     << "w", "i", "i", "u" >>,
     << "w", "i", "i", " ", "u" >>,
     << "3", "d", "s" >>,
     << "n", "i", "n", "t", "e", "n", "d", "o", " ", "3", "d", "s" >>,
     << "s", "w", "i", "t", "c", "h" >>,
     << "n", "i", "n", "t", "e", "n", "d", "o", " ", "s", "w", "i", "t", "c", "h" >>,
     << "g", "b" >>,
     << "g", "a", "m", "e", " ", "b", "o", "y" >>,
     << "g", "b", "c" >>,
     << "g", "a", "m", "e", " ", "b", "o", "y", " ", "c", "o", "l", "o", "r" >>,
     << "g", "b", "a" >>,
     << "g", "a", "m", "e", " ", "b", "o", "y", " ", "a", "d", "v", "a", "n", "c", "e" >>,
     << "d", "s" >>,
     << "n", "i", "n", "t", "e", "n", "d", "o", " ", "d", "s" >>,
     << "g", "e", "n", "e", "s", "i", "s" >>,
     << "m", "e", "g", "a", " ", "d", "r", "i", "v", "e" >>,
     << "m", "e", "g", "a", "d", "r", "i", "v", "e" >>,
     << "s", "e", "g", "a" >>,
     << "m", "a", "s", "t", "e", "r", " ", "s", "y", "s", "t", "e", "m" >>,
     << "s", "m", "s" >>,
     << "g", "a", "m", "e", " ", "g", "e", "a", "r" >>,
     << "g", "g" >>,
     << "d", "r", "e", "a", "m", "c", "a", "s", "t" >>,
     << "s", "a", "t", "u", "r", "n" >>,
     << "3", "2", "x" >>,
     << "s", "e", "g", "a", " ", "3", "2", "x" >>,
     << "p", "l", "a", "y", "s", "t", "a", "t", "i", "o", "n" >>,
     << "p", "s", "x" >>,
     << "p", "s", "1" >>,
     << "p", "s", "2" >>,
     << "p", "l", "a", "y", "s", "t", "a", "t", "i", "o", "n", " ", "2" >>,
     << "p", "s", "p" >>,
     << "p", "l", "a", "y", "s", "t", "a", "t", "i", "o", "n", " ", "p", "o", "r", "t", "a", "b", "l", "e" >>,
     << "p", "s", "3" >>,
     << "p", "l", "a", "y", "s", "t", "a", "t", "i", "o", "n", " ", "3" >>,
     << "a", "t", "a", "r", "i", " ", "2", "6", "0", "0" >>,
     << "a", "2", "6" >>,
     << "a", "t", "a", "r", "i", " ", "7", "8", "0", "0" >>,
     << "a", "7", "8" >>,
     << "l", "y", "n", "x" >>,
     << "j", "a", "g", "u", "a", "r" >>,
     << "t", "u", "r", "b", "o", "g", "r", "a", "f", "x" >>,
     << "p", "c", " ", "e", "n", "g", "i", "n", "e" >>,
     << "p", "c", "e" >>,
     << "n", "e", "o", " ", "g", "e", "o" >>,
     << "n", "g", "p" >>,
     << "w", "o", "n", "d", "e", "r", "s", "w", "a", "n" >>,
     << "c", "o", "l", "e", "c", "o", "v", "i", "s", "i", "o", "n" >>,
     << "i", "n", "t", "e", "l", "l", "i", "v", "i", "s", "i", "o", "n" >>,
     << "v", "e", "c", "t", "r", "e", "x" >> >>

\* EXTENSION_TO_CONSOLE[ext]; the empty sequence where the table has no entry
EXTENSION_TO_CONSOLE(ext) ==
  CASE ext = ".nes" ->
         << << "N", "i", "n", "t", "e", "n", "d", "o", " ", "E", "n", "t", "e", "r", "t", "a", "i", "n", "m", "e", "n", "t", " ", "S", "y", "s", "t", "e", "m" >>,
            << "N", "E", "S" >> >>
    [] ext = ".fds" ->
         << << "N", "i", "n", "t", "e", "n", "d", "o", " ", "E", "n", "t", "e", "r", "t", "a", "i", "n", "m", "e", "n", "t", " ", "S", "y", "s", "t", "e", "m" >>,
            << "N", "E", "S" >> >>
    [] ext = ".sfc" ->
         << << "S", "u", "p", "e", "r", " ", "N", "i", "n", "t", "e", "n", "d", "o", " ", "E", "n", "t", "e", "r", "t", "a", "i", "n", "m", "e", "n", "t", " ", "S", "y", "s", "t", "e", "m" >>,
            << "S", "N", "E", "S" >> >>
    [] ext = ".smc" ->
         << << "S", "u", "p", "e", "r", " ", "N", "i", "n", "t", "e", "n", "d", "o", " ", "E", "n", "t", "e", "r", "t", "a", "i", "n", "m", "e", "n", "t", " ", "S", "y", "s", "t", "e", "m" >>,
            << "S", "N", "E", "S" >> >>
    [] ext = ".gb" ->
         << << "G", "a", "m", "e", " ", "B", "o", "y" >>,
            << "G", "B" >> >>
    [] ext = ".gbc" ->
         << << "G", "a", "m", "e", " ", "B", "o", "y", " ", "C", "o", "l", "o", "r" >>,
            << "G", "B", "C" >> >>
    [] ext = ".gba" ->
         << << "G", "a", "m", "e", " ", "B", "o", "y", " ", "A", "d", "v", "a", "n", "c", "e" >>,
            << "G", "B", "A" >> >>
    [] ext = ".nds" ->
         << << "N", "i", "n", "t", "e", "n", "d", "o", " ", "D", "S" >>,
            << "N", "D", "S" >> >>
    [] ext = ".n64" ->
         << << "N", "i", "n", "t", "e", "n", "d", "o", " ", "6", "4" >>,
            << "N", "6", "4" >> >>
    [] ext = ".z64" ->
         << << "N", "i", "n", "t", "e", "n", "d", "o", " ", "6", "4" >>,
            << "N", "6", "4" >> >>
    [] ext = ".v64" ->
         << << "N", "i", "n", "t", "e", "n", "d", "o", " ", "6", "4" >>,
            << "N", "6", "4" >> >>
    [] ext = ".gcm" ->
         << << "G", "a", "m", "e", "c", "u", "b", "e" >>,
            << "G", "a", "m", "e", "C", "u", "b", "e" >>,
            << "N", "G", "C" >> >>
    [] ext = ".gcz" ->
         << << "G", "a", "m", "e", "c", "u", "b", "e" >>,
            << "G", "a", "m", "e", "C", "u", "b", "e" >>,
            << "N", "G", "C" >> >>
    [] ext = ".rvz" ->
         << << "G", "a", "m", "e", "c", "u", "b", "e" >>,
            << "G", "a", "m", "e", "C", "u", "b", "e" >>,
            << "N", "G", "C" >> >>
    [] ext = ".wbfs" ->
         << << "W", "i", "i" >>,
            << "N", "i", "n", "t", "e", "n", "d", "o", " ", "W", "i", "i" >> >>
    [] ext = ".wad" ->
         << << "W", "i", "i" >>,
            << "N", "i", "n", "t", "e", "n", "d", "o", " ", "W", "i", "i" >> >>
    [] ext = ".wux" ->
         << << "W", "i", "i", " ", "U" >>,
            << "N", "i", "n", "t", "e", "n", "d", "o", " ", "W", "i", "i", " ", "U" >> >>
    [] ext = ".wud" ->
         << << "W", "i", "i", " ", "U" >>,
            << "N", "i", "n", "t", "e", "n", "d", "o", " ", "W", "i", "i", " ", "U" >> >>
    [] ext = ".3ds" ->
         << << "N", "i", "n", "t", "e", "n", "d", "o", " ", "3", "D", "S" >>,
            << "3", "D", "S" >> >>
    [] ext = ".cia" ->
         << << "N", "i", "n", "t", "e", "n", "d", "o", " ", "3", "D", "S" >>,
            << "3", "D", "S" >> >>
    [] ext = ".nsp" ->
         << << "N", "i", "n", "t", "e", "n", "d", "o", " ", "S", "w", "i", "t", "c", "h" >>,
            << "S", "w", "i", "t", "c", "h" >> >>
    [] ext = ".xci" ->
         << << "N", "i", "n", "t", "e", "n", "d", "o", " ", "S", "w", "i", "t", "c", "h" >>,
            << "S", "w", "i", "t", "c", "h" >> >>
    [] ext = ".md" ->
         << << "M", "e", "g", "a", " ", "D", "r", "i", "v", "e" >>,
            << "G", "e", "n", "e", "s", "i", "s" >> >>
    [] ext = ".smd" ->
         << << "M", "e", "g", "a", " ", "D", "r", "i", "v", "e" >>,
            << "G", "e", "n", "e", "s", "i", "s" >> >>
    [] ext = ".gen" ->
         << << "M", "e", "g", "a", " ", "D", "r", "i", "v", "e" >>,
            << "G", "e", "n", "e", "s", "i", "s" >> >>
    [] ext = ".bin" ->
         << << "M", "e", "g", "a", " ", "D", "r", "i", "v", "e" >>,
            << "G", "e", "n", "e", "s", "i", "s" >>,
            << "S", "a", "t", "u", "r", "n" >> >>
    [] ext = ".gg" ->
         << << "G", "a", "m", "e", " ", "G", "e", "a", "r" >>,
            << "G", "G" >> >>
    [] ext = ".sms" ->
         << << "M", "a", "s", "t", "e", "r", " ", "S", "y", "s", "t", "e", "m" >>,
            << "S", "M", "S" >> >>
    [] ext = ".32x" ->
         << << "3", "2", "X" >>,
            << "S", "e", "g", "a", " ", "3", "2", "X" >> >>
    [] ext = ".sg" ->
         << << "S", "G", "-", "1", "0", "0", "0" >>,
            << "S", "G", "1", "0", "0", "0" >> >>
    [] ext = ".gdi" ->
         << << "D", "r", "e", "a", "m", "c", "a", "s", "t" >>,
            << "S", "e", "g", "a", " ", "D", "r", "e", "a", "m", "c", "a", "s", "t" >> >>
    [] ext = ".cdi" ->
         << << "D", "r", "e", "a", "m", "c", "a", "s", "t" >>,
            << "S", "e", "g", "a", " ", "D", "r", "e", "a", "m", "c", "a", "s", "t" >> >>
    [] ext = ".iso" ->
         << << "P", "l", "a", "y", "S", "t", "a", "t", "i", "o", "n" >>,
            << "P", "S", "X" >>,
            << "P", "l", "a", "y", "S", "t", "a", "t", "i", "o", "n", " ", "P", "o", "r", "t", "a", "b", "l", "e" >>,
            << "P", "S", "P" >>,
            << "P", "l", "a", "y", "S", "t", "a", "t", "i", "o", "n", " ", "2" >>,
            << "P", "S", "2" >> >>
    [] ext = ".cue" ->
         << << "P", "l", "a", "y", "S", "t", "a", "t", "i", "o", "n" >>,
            << "P", "S", "X" >>,
            << "S", "a", "t", "u", "r", "n" >> >>
    [] ext = ".chd" ->
         << << "P", "l", "a", "y", "S", "t", "a", "t", "i", "o", "n" >>,
            << "P", "S", "X" >>,
            << "D", "r", "e", "a", "m", "c", "a", "s", "t" >>,
            << "S", "a", "t", "u", "r", "n" >> >>
    [] ext = ".img" ->
         << << "P", "l", "a", "y", "S", "t", "a", "t", "i", "o", "n", " ", "2" >>,
            << "P", "S", "2" >> >>
    [] ext = ".cso" ->
         << << "P", "l", "a", "y", "S", "t", "a", "t", "i", "o", "n", " ", "P", "o", "r", "t", "a", "b", "l", "e" >>,
            << "P", "S", "P" >> >>
    [] ext = ".pbp" ->
         << << "P", "l", "a", "y", "S", "t", "a", "t", "i", "o", "n", " ", "P", "o", "r", "t", "a", "b", "l", "e" >>,
            << "P", "S", "P" >> >>
    [] ext = ".a26" ->
         << << "A", "t", "a", "r", "i", " ", "2", "6", "0", "0" >>,
            << "A", "2", "6" >> >>
    [] ext = ".a78" ->
         << << "A", "t", "a", "r", "i", " ", "7", "8", "0", "0" >>,
            << "A", "7", "8" >> >>
    [] ext = ".lnx" ->
         << << "A", "t", "a", "r", "i", " ", "L", "y", "n", "x" >>,
            << "L", "y", "n", "x" >> >>
    [] ext = ".jag" ->
         << << "A", "t", "a", "r", "i", " ", "J", "a", "g", "u", "a", "r" >>,
            << "J", "a", "g", "u", "a", "r" >> >>
    [] ext = ".j64" ->
         << << "A", "t", "a", "r", "i", " ", "J", "a", "g", "u", "a", "r" >>,
            << "J", "a", "g", "u", "a", "r" >> >>
    [] ext = ".pce" ->
         << << "T", "u", "r", "b", "o", "G", "r", "a", "f", "x", "-", "1", "6" >>,
            << "P", "C", " ", "E", "n", "g", "i", "n", "e" >> >>
    [] ext = ".ngp" ->
         << << "N", "e", "o", " ", "G", "e", "o", " ", "P", "o", "c", "k", "e", "t" >>,
            << "N", "G", "P" >> >>
    [] ext = ".ngc" ->
         << << "N", "e", "o", " ", "G", "e", "o", " ", "P", "o", "c", "k", "e", "t", " ", "C", "o", "l", "o", "r" >>,
            << "N", "G", "P", "C" >> >>
    [] ext = ".ws" ->
         << << "W", "o", "n", "d", "e", "r", "S", "w", "a", "n" >>,
            << "W", "S" >> >>
    [] ext = ".wsc" ->
         << << "W", "o", "n", "d", "e", "r", "S", "w", "a", "n", " ", "C", "o", "l", "o", "r" >>,
            << "W", "S", "C" >> >>
    [] ext = ".col" ->
         << << "C", "o", "l", "e", "c", "o", "V", "i", "s", "i", "o", "n" >>,
            << "C", "V" >> >>
    [] ext = ".int" ->
         << << "I", "n", "t", "e", "l", "l", "i", "v", "i", "s", "i", "o", "n" >>,
            << "I", "N", "T" >> >>
    [] ext = ".vec" ->
         << << "V", "e", "c", "t", "r", "e", "x" >>,
            << "V", "E", "C" >> >>
    [] ext = ".min" ->
         << << "P", "o", "k", "e", "m", "o", "n", " ", "M", "i", "n", "i" >>,
            << "P", "M" >> >>
    [] ext = ".vb" ->
         << << "V", "i", "r", "t", "u", "a", "l", " ", "B", "o", "y" >>,
            << "V", "B" >> >>
    [] OTHER -> <<>>

\* a platform object of the list: obj is the identity of the object
Console(obj, id, name) == [obj |-> obj, id |-> id, name |-> name]

\* the test of the folder-name phase on one platform
folderNameTest(folderName, console) ==
  LET consoleNameLower == trim(lower(console.name))
  IN \/ includes(folderName, consoleNameLower)
     \/ includes(consoleNameLower, folderName)
     \/ \E q \in 1..Len(folderKeywords) :
          LET keyword == folderKeywords[q]
          IN /\ includes(folderName, keyword)
             /\ \/ includes(consoleNameLower, keyword)
                \/ includes(keyword, split(consoleNameLower)[1])

RECURSIVE folderPhase(_, _, _)
\* the loop of the folder-name phase from platform n on: the position of the
\* first platform that passes the test, 0 when none does
folderPhase(folderName, platforms, n) ==
  IF n > Len(platforms) THEN 0
  ELSE IF folderNameTest(folderName, platforms[n]) THEN n
  ELSE folderPhase(folderName, platforms, n + 1)

\* path.extname(filename).toLowerCase() of each listed name
extensionsOf(names) == [n \in 1..Len(names) |-> extname(Last(names[n]))]

RECURSIVE mapKeys(_, _)
\* the keys of extensionCounts, in the order a Map iterates: first insertion
mapKeys(exts, n) ==
  IF n > Len(exts) THEN <<>>
  ELSE (IF \E m \in 1..(n - 1) : exts[m] = exts[n] THEN <<>> ELSE << exts[n] >>)
       \o mapKeys(exts, n + 1)

\* extensionCounts.get(ext)
extensionCount(exts, ext) == Cardinality({ n \in 1..Len(exts) : exts[n] = ext })

RECURSIVE mostCommonLastWins(_, _, _, _, _)
\* the search for the most common extension with count >= maxCount
mostCommonLastWins(exts, keys, n, mostCommonExt, maxCount) ==
  IF n > Len(keys) THEN mostCommonExt
  ELSE IF extensionCount(exts, keys[n]) >= maxCount
       THEN mostCommonLastWins(exts, keys, n + 1, keys[n], extensionCount(exts, keys[n]))
       ELSE mostCommonLastWins(exts, keys, n + 1, mostCommonExt, maxCount)

RECURSIVE mostCommon(_, _, _, _, _)
\* the loop over extensionCounts from key n on; mostCommonExt is "" for null
mostCommon(exts, keys, n, mostCommonExt, maxCount) ==
  IF n > Len(keys) THEN mostCommonExt
  ELSE IF extensionCount(exts, keys[n]) > maxCount
       THEN mostCommon(exts, keys, n + 1, keys[n], extensionCount(exts, keys[n]))
       ELSE mostCommon(exts, keys, n + 1, mostCommonExt, maxCount)

\* mostCommonExt after the loop
mostCommonExtOf(names) ==
  LET exts == extensionsOf(names)
  IN mostCommon(exts, mapKeys(exts, 1), 1, "", 0)

\* the words of a name longer than two characters
significantWords(name) == SelectSeq(split(name), LAMBDA w : Len(w) > 2)

\* matchConsoleName against one possible name
matchesName(consoleNameLower, possibleName) ==
  LET possibleLower == trim(lower(possibleName))
      consoleWords == significantWords(consoleNameLower)
      possibleWords == significantWords(possibleLower)
      matchingWords ==
        { n \in 1..Len(consoleWords) :
            \E m \in 1..Len(possibleWords) :
              \/ includes(possibleWords[m], consoleWords[n])
              \/ includes(consoleWords[n], possibleWords[m]) }
  IN \/ includes(consoleNameLower, possibleLower)
     \/ includes(possibleLower, consoleNameLower)
     \/ /\ Cardinality(matchingWords) > 0
        /\ 2 * Cardinality(matchingWords) >= Min(Len(consoleWords), Len(possibleWords))

matchConsoleName(consoleName, possibleNames) ==
  \E p \in 1..Len(possibleNames) :
    matchesName(trim(lower(consoleName)), possibleNames[p])

RECURSIVE extensionPhase(_, _, _)
\* the last loop of suggestConsole from platform n on: the position of the
\* first platform whose name matches a possible name, 0 when none does
extensionPhase(possibleNames, platforms, n) ==
  IF n > Len(platforms) THEN 0
  ELSE IF matchConsoleName(platforms[n].name, possibleNames) THEN n
  ELSE extensionPhase(possibleNames, platforms, n + 1)

\* where suggestConsole returns: at its guard, in the folder-name phase or
\* in the extension phase, and with which platform of the list (0: null)
\* a suggestion that tries the folder name before it looks at the lists
suggestionFolderFirst(dir, names, platforms) ==
  LET found == IF dir # <<>>
               THEN folderPhase(lower(basename(resolve(dir))), platforms, 1)
               ELSE 0
  IN IF found # 0 THEN [phase |-> "folder", at |-> found, ext |-> ""]
     ELSE [phase |-> "guard", at |-> 0, ext |-> ""]

suggestion(dir, names, platforms) ==
  IF names = <<>> \/ platforms = <<>>
  THEN [phase |-> "guard", at |-> 0, ext |-> ""]
  ELSE LET found == IF dir # <<>>
                    THEN folderPhase(lower(basename(resolve(dir))), platforms, 1)
                    ELSE 0
           mostCommonExt == mostCommonExtOf(names)
       IN IF found # 0
          THEN [phase |-> "folder", at |-> found, ext |-> ""]
          ELSE [phase |-> "extension",
                at |-> IF mostCommonExt = "" \/ EXTENSION_TO_CONSOLE(mostCommonExt) = <<>>
                       THEN 0
                       ELSE extensionPhase(EXTENSION_TO_CONSOLE(mostCommonExt), platforms, 1),
                ext |-> mostCommonExt]

\* a suggestConsole that returns a copy of the platform it found
suggestConsoleCopy(dir, names, platforms) ==
  LET s == suggestion(dir, names, platforms)
  IN IF s.at = 0 THEN <<>> ELSE << [platforms[s.at] EXCEPT !.obj = 0] >>

\* suggestConsole(directory, romFiles, consoles): no platform, or the one found
suggestConsole(dir, names, platforms) ==
  LET s == suggestion(dir, names, platforms)
  IN IF s.at = 0 THEN <<>> ELSE << platforms[s.at] >>

\* the state of main from step 6 on
tailVars == << hashMap, scannedRoms, compared, lookups, summary, exitCode >>

\* the state scanDirectory, calculateMD5 and the adapters work on
scanVars ==
  << root, disk, romFiles, archiveFiles, i, j, k, extractedROMs, fileStats,
     results, origins, tempDirsToCleanup, tempDirs, nTemp, hashOps, extractOps,
     awaited, now, faults, extractLog, hashLog, thrown, debug, diagnostics >>

\* main, step 4: the call of suggestConsole on the listing and the platforms
Suggest ==
  /\ pc = "suggest"
  /\ suggestedConsole' = suggestConsole(directory, result, consoles)
  /\ suggestLog' = suggestion(directory, result, consoles)
  /\ pc' = "select"
  /\ UNCHANGED << directory, result, consoles, options, selectedConsole, prompts,
                  listLog, scanVars, tailVars >>

\* parseInt yields NaN, which no id equals
NaN == 0 - 1

\* parseInt(text, 10) on the option texts of the model: the leading digits
parseInt(text) ==
  CASE text = "1" -> 1
    [] text = "3" -> 3
    [] text = "3x" -> 3
    [] text = "3.9" -> 3
    [] text = "9" -> 9
    [] OTHER -> NaN

\* consoles.find((c) => c.id === systemId): the first platform with the id
find(platforms, systemId) ==
  LET hits == { n \in 1..Len(platforms) : platforms[n].id = systemId }
  IN IF hits = {} THEN <<>>
     ELSE << platforms[CHOOSE n \in hits : \A m \in hits : n <= m] >>

\* a selection that takes the suggestion without asking
SelectAppliesSuggestion ==
  /\ pc = "select"
  /\ IF options.system # ""
     THEN /\ selectedConsole' = find(consoles, parseInt(options.system))
          /\ pc' = IF find(consoles, parseInt(options.system)) = <<>>
                   THEN "exited" ELSE "selected"
          /\ exitCode' = IF find(consoles, parseInt(options.system)) = <<>>
                         THEN << 1 >> ELSE exitCode
     ELSE IF suggestedConsole # <<>>
     THEN /\ selectedConsole' = suggestedConsole
          /\ pc' = "selected"
          /\ UNCHANGED exitCode
     ELSE /\ pc' = "choose"
          /\ UNCHANGED << selectedConsole, exitCode >>
  /\ UNCHANGED << directory, result, consoles, options, suggestedConsole,
                  suggestLog, prompts, listLog, scanVars, hashMap, scannedRoms,
                  compared, lookups, summary >>

\* main, step 5, up to its first prompt: an explicit --system id is looked
\* up (the program exits when the list has no such platform), a suggestion
\* is put to the user, and without either the full list is shown
Select ==
  /\ pc = "select"
  /\ IF options.system # ""
     THEN /\ selectedConsole' = find(consoles, parseInt(options.system))
          /\ pc' = IF find(consoles, parseInt(options.system)) = <<>>
                   THEN "exited" ELSE "selected"
          /\ exitCode' = IF find(consoles, parseInt(options.system)) = <<>>
                         THEN << 1 >> ELSE exitCode
     ELSE /\ pc' = IF suggestedConsole # <<>> THEN "confirm" ELSE "choose"
          /\ UNCHANGED << selectedConsole, exitCode >>
  /\ UNCHANGED << directory, result, consoles, options, suggestedConsole,
                  suggestLog, prompts, listLog, scanVars, hashMap, scannedRoms,
                  compared, lookups, summary >>

\* the user answers the confirmation prompt "Use <suggested>?"
ConfirmAnswer ==
  /\ pc = "confirm"
  /\ \E useSuggested \in BOOLEAN :
       /\ prompts' = Append(prompts, [type |-> "confirm", answer |-> useSuggested])
       /\ IF useSuggested
          THEN /\ selectedConsole' = suggestedConsole
               /\ pc' = "selected"
          ELSE /\ pc' = "choose"
               /\ UNCHANGED selectedConsole
  /\ UNCHANGED << directory, result, consoles, options, suggestedConsole,
                  suggestLog, listLog, scanVars, tailVars >>

\* the user picks a platform in the full selection list
ListAnswer ==
  /\ pc = "choose"
  /\ \E n \in 1..Len(consoles) :
       /\ prompts' = Append(prompts, [type |-> "list", answer |-> n])
       /\ selectedConsole' = << consoles[n] >>
  /\ pc' = "selected"
  /\ UNCHANGED << directory, result, consoles, options, suggestedConsole,
                  suggestLog, listLog, scanVars, tailVars >>

\* the value getGameHashes stores for a hash: the game's id and title
Game(data) == [id |-> data.size, title |-> data.id]

\* the Map getGameHashes builds from the games whose contents are given: each
\* hash of a game, in lower case, is a key, and the game is its value
gameHashes(games) ==
  [h \in { MD5(data) : data \in games } |->
     Game(CHOOSE data \in games : MD5(data) = h)]

\* the catalogs the service may return: no game, one, two
Catalogs ==
  { gameHashes({}), gameHashes({ Data("X", 1) }),
    gameHashes({ Data("X", 1), Data("Y", 2) }) }

\* main, step 6: the catalog of the selected platform is fetched; the program
\* exits with status 1 when the fetch fails
FetchHashes ==
  /\ pc = "selected"
  /\ \/ \E catalog \in Catalogs :
          /\ hashMap' = << catalog >>
          /\ pc' = "scan"
          /\ UNCHANGED exitCode
     \/ /\ pc' = "exited"
        /\ exitCode' = << 1 >>
        /\ UNCHANGED hashMap
  /\ UNCHANGED << directory, result, consoles, options, suggestedConsole,
                  suggestLog, selectedConsole, prompts, listLog, scanVars,
                  scannedRoms, compared, lookups, summary >>

\* no scan is running
ScanIdle ==
  /\ root = "dir"
  /\ disk = <<>>
  /\ romFiles = <<>>
  /\ archiveFiles = <<>>
  /\ i = 1
  /\ j = 1
  /\ k = 1
  /\ extractedROMs = <<>>
  /\ fileStats = 0
  /\ results = <<>>
  /\ origins = <<>>
  /\ tempDirsToCleanup = <<>>
  /\ tempDirs = [d \in {} |-> EmptyDir]
  /\ nTemp = 0
  /\ hashOps = {}
  /\ extractOps = {}
  /\ awaited = Pending
  /\ now = 0
  /\ faults = 0
  /\ extractLog = <<>>
  /\ hashLog = Null
  /\ thrown = Null
  /\ debug = FALSE
  /\ diagnostics = {}

\* the directories given: absolute, relative, the root and the empty path
Directories ==
  { << "/", "r", "o", "m", "s", "/", "S", "N", "E", "S", " ", "C", "o", "l", "l", "e", "c", "t", "i", "o", "n" >>,
    << "/", "r", "o", "m", "s", "/", "G", "e", "n", "e", "s", "i", "s" >>,
    << "/" >>, << "n", "e", "s" >>, <<>> }

\* the platforms a list may hold
Consoles ==
  { Console(1, 3, << "S", "u", "p", "e", "r", " ", "N", "i", "n", "t", "e", "n", "d", "o", " ", "E", "n", "t", "e", "r", "t", "a", "i", "n", "m", "e", "n", "t", " ", "S", "y", "s", "t", "e", "m" >>), Console(2, 1, << "G", "e", "n", "e", "s", "i", "s", "/", "M", "e", "g", "a", " ", "D", "r", "i", "v", "e" >>),
    Console(3, 7, << "N", "i", "n", "t", "e", "n", "d", "o", " ", "E", "n", "t", "e", "r", "t", "a", "i", "n", "m", "e", "n", "t", " ", "S", "y", "s", "t", "e", "m" >>) }

\* the platform lists: up to MaxConsoles different platforms, in any order
ConsoleLists ==
  { s \in UNION { [1..n -> Consoles] : n \in 0..MaxConsoles } :
      \A a, b \in 1..Len(s) : a # b => s[a] # s[b] }

\* the names a listing may hold: ROM files, also in upper case and in an
\* archive, and the placeholder of a rar archive
Names ==
  { << << "a", "sfc" >> >>, << << "b", "SFC" >> >>,
    << << "pack", "zip" >>, << "c", "nes" >> >>,
    << << "set", "rar" >>, Placeholder >> }

NameLists == UNION { [1..n -> Names] : n \in 0..MaxNames }

InitSuggest ==
  /\ pc = "suggest"
  /\ directory \in Directories
  /\ result \in NameLists
  /\ consoles \in ConsoleLists
  /\ options = [system |-> "", given |-> FALSE]
  /\ suggestedConsole = <<>>
  /\ suggestLog = Null
  /\ selectedConsole = <<>>
  /\ prompts = <<>>
  /\ TailIdle
  /\ listLog = <<>>
  /\ ScanIdle

NextSuggest == Suggest

SpecSuggest == InitSuggest /\ [][NextSuggest]_vars

\* the texts given to --system; "" is the option left out
Systems == { "", "1", "3", "3x", "3.9", "9", "abc" }

\* program.opts(): --system left out, or given with a text, the empty one too
Options ==
  { [system |-> "", given |-> FALSE] } \cup { [system |-> s, given |-> TRUE] : s \in Systems }

\* main after step 3: a listing that is not empty and the platforms fetched
InitMain ==
  /\ pc = "suggest"
  /\ directory \in { << "/", "r", "o", "m", "s", "/", "S", "N", "E", "S", " ", "C", "o", "l", "l", "e", "c", "t", "i", "o", "n" >>, << "n", "e", "s" >> }
  /\ result \in { s \in NameLists : s # <<>> /\ Len(s) <= 2 }
  /\ consoles \in ConsoleLists
  /\ options \in Options
  /\ suggestedConsole = <<>>
  /\ suggestLog = Null
  /\ selectedConsole = <<>>
  /\ prompts = <<>>
  /\ TailIdle
  /\ listLog = <<>>
  /\ ScanIdle

NextMain ==
  \/ Suggest
  \/ Select
  \/ ConfirmAnswer
  \/ ListAnswer
  \/ FetchHashes

SpecMain == InitMain /\ [][NextMain]_vars

(***************************************************************************)
(* main from step 7 on: scanDirectory runs on the directory, then its      *)
(* results are compared with the catalog and the report is displayed.      *)
(***************************************************************************)
\* a message, null or undefined taken as a condition: `if (rom.error)`
truthy(message) == message # Null /\ (message[1] # "" \/ message[2] # "")

\* rom.error: undefined for a result written without the field
errorOf(rom) == IF "error" \in DOMAIN rom THEN rom.error ELSE Null

\* hashMap.get(key) || null: empty or the one game stored for the key
get(map, key) == IF key \in DOMAIN map THEN << map[key] >> ELSE <<>>

\* step 8, the function mapped over scannedRoms
compare(rom, map) ==
  IF truthy(errorOf(rom))
  THEN [filename |-> rom.filename, hash |-> Null, match |-> <<>>, error |-> rom.error]
  ELSE [filename |-> rom.filename, hash |-> rom.hash, match |-> get(map, rom.hash),
        error |-> Null]

RECURSIVE lookedUp(_, _)
\* the keys step 8 passes to hashMap.get for the roms n.. , in order
lookedUp(roms, n) ==
  IF n > Len(roms) THEN <<>>
  ELSE (IF truthy(errorOf(roms[n])) THEN <<>> ELSE << roms[n].hash >>)
       \o lookedUp(roms, n + 1)

\* results.filter(test).length
count(rs, test(_)) == Cardinality({ n \in 1..Len(rs) : test(rs[n]) })

\* displaySummary(matched, unmatched, errors): the counts it prints
displaySummary(matched, unmatched, errors) ==
  [matched |-> matched, unmatched |-> unmatched, errors |-> errors,
   total |-> matched + unmatched + errors]

\* displayResults passing the unmatched count with the errors in it
displayResultsErrorsTwice(rs) ==
  displaySummary(count(rs, LAMBDA r : r.match # <<>>),
                 count(rs, LAMBDA r : r.match = <<>>),
                 count(rs, LAMBDA r : truthy(r.error)))

\* displayResults: the three filters and the call of displaySummary
displayResults(rs) ==
  LET matched == count(rs, LAMBDA r : r.match # <<>>)
      unmatched == count(rs, LAMBDA r : r.match = <<>>)
      errors == count(rs, LAMBDA r : truthy(r.error))
  IN displaySummary(matched, unmatched - errors, errors)

\* main resumes after `await scanDirectory(...)`: when the scan rejected the
\* program exits with status 1, else steps 8 and 9 run to the end
Report ==
  /\ pc \in { "done", "failed" }
  /\ IF pc = "failed"
     THEN /\ exitCode' = << 1 >>
          /\ pc' = "exited"
          /\ UNCHANGED << scannedRoms, compared, lookups, summary >>
     ELSE /\ scannedRoms' = results
          /\ compared' = [n \in 1..Len(results) |-> compare(results[n], hashMap[1])]
          /\ lookups' = lookedUp(results, 1)
          /\ summary' = << displayResults(compared') >>
          /\ pc' = "reported"
          /\ UNCHANGED exitCode
  /\ UNCHANGED << directory, result, consoles, options, suggestedConsole,
                  suggestLog, selectedConsole, prompts, listLog, hashMap, scanVars >>

\* the directory scanned: up to MaxFiles of two ROM files, three archives and
\* a directory that cannot be read
ReportListing ==
  << Listing[2], Listing[3], Listing[5], Listing[6], Listing[8],
     UnreadableDir("lost", <<>>) >>

ReportDisks ==
  { Keep(ReportListing, keep, 1) :
      keep \in { c \in SUBSET (1..Len(ReportListing)) : Cardinality(c) <= MaxFiles } }

\* main at step 7: a platform is selected, its catalog fetched, and
\* scanDirectory is called
InitReport ==
  /\ root = "dir"
  /\ disk \in ReportDisks
  /\ pc = "validate"
  /\ romFiles = <<>>
  /\ archiveFiles = <<>>
  /\ i = 1
  /\ j = 1
  /\ k = 1
  /\ extractedROMs = <<>>
  /\ fileStats = 0
  /\ results = <<>>
  /\ origins = <<>>
  /\ tempDirsToCleanup = <<>>
  /\ tempDirs = [d \in {} |-> EmptyDir]
  /\ nTemp = 0
  /\ hashOps = {}
  /\ extractOps = {}
  /\ awaited = Pending
  /\ now = 0
  /\ faults = 0
  /\ extractLog = <<>>
  /\ hashLog = Null
  /\ thrown = Null
  /\ debug = FALSE
  /\ diagnostics = {}
  /\ result = <<>>
  /\ listLog = <<>>
  /\ directory = <<>>
  /\ consoles = <<>>
  /\ options = [system |-> "", given |-> FALSE]
  /\ suggestedConsole = <<>>
  /\ suggestLog = Null
  /\ selectedConsole = <<>>
  /\ prompts = <<>>
  /\ hashMap \in { << catalog >> : catalog \in Catalogs }
  /\ scannedRoms = <<>>
  /\ compared = <<>>
  /\ lookups = <<>>
  /\ summary = <<>>
  /\ exitCode = <<>>

NextReport ==
  \/ Next
  \/ Report

SpecReport == InitReport /\ [][NextReport]_vars

(***************************************************************************)
(* The walker applied to trees with symbolic links: to a ROM file, to a    *)
(* directory of ROM files, and back to the directory that holds the link.  *)
(* readdirSync(dir, {withFileTypes: true}) reports a link as a link; its   *)
(* members are what following it would list.                               *)
(***************************************************************************)
Symlink(name, entries) == Entry(name, "symlink", Data("", 0), entries)

\* a link back to the directory that holds it, which holds the entries
LoopLink(entries) == Symlink(<<"loop">>, entries \o << Symlink(<<"loop">>, entries) >>)

LinkFiles ==
  { NamedFile(<<"a", "nes">>), NamedFile(<<"c", "txt">>), Symlink(<<"link", "nes">>, <<>>) }

LinkLinks ==
  { Symlink(<<"roms">>, << NamedFile(<<"g", "gb">>) >>),
    Symlink(<<"more", "zip">>, << NamedFile(<<"h", "gb">>) >>),
    LoopLink(<< NamedFile(<<"a", "nes">>) >>) }

LinkDirs ==
  { Dir("sub", entries) :
      entries \in UpToTwo(LinkFiles \cup LinkLinks
                            \cup { Dir("deep", << NamedFile(<<"e", "gb">>),
                                                  LoopLink(<< NamedFile(<<"e", "gb">>) >>) >>) }) }

LinkDisks == UpToTwo(LinkFiles \cup LinkLinks \cup LinkDirs)

InitLinks ==
  /\ root = "dir"
  /\ disk \in LinkDisks
  /\ pc = "discover"
  /\ romFiles = <<>>
  /\ archiveFiles = <<>>
  /\ i = 1
  /\ j = 1
  /\ k = 1
  /\ extractedROMs = <<>>
  /\ fileStats = 0
  /\ results = <<>>
  /\ origins = <<>>
  /\ tempDirsToCleanup = <<>>
  /\ tempDirs = [d \in {} |-> EmptyDir]
  /\ nTemp = 0
  /\ hashOps = {}
  /\ extractOps = {}
  /\ awaited = Pending
  /\ now = 0
  /\ faults = 0
  /\ extractLog = <<>>
  /\ hashLog = Null
  /\ thrown = Null
  /\ debug = FALSE
  /\ diagnostics = {}
  /\ ApartIdle

SpecLinks == InitLinks /\ [][NextWalk]_vars

(***************************************************************************)
(* The scan with operations that do not come back: a read of the file      *)
(* being hashed that never returns, and the read stream of a zip member    *)
(* that fails while it is copied.                                          *)
(***************************************************************************)
\* a read of the file never returns: fileHandle.read stays pending, or the
\* stream delivers no further event
HashHang(op) ==
  /\ op.state \in { "read", "stream" }
  /\ op.bytesRead < op.fileSize
  /\ CanFail
  /\ faults' = faults + 1
  /\ Update(op, [op EXCEPT !.state = "hung"])
  /\ UNCHANGED << awaited, now >>

\* the read stream of a ROM member emits "error" while piped to the write
\* stream: no listener is registered for it, the write stream is left open
\* and never closes, and readEntry is not called again
ZipReadStreamError(op) ==
  /\ op.state = "zip_entries"
  /\ op.n <= Len(op.members)
  /\ IsRomEntry(op.members[op.n])
  /\ CanFail
  /\ faults' = faults + 1
  /\ UpdateExtract(op, [op EXCEPT !.state = "zip_uncaught"])
  /\ UNCHANGED << awaited, tempDirs >>

OnHashHang == \E op \in hashOps : HashHang(op) /\ hashFrame

OnZipReadStreamError == \E op \in extractOps : ZipReadStreamError(op) /\ extractFrame

\* one entry: a ROM file read as a stream, one read by position, or an
\* archive of each format
LiveDisks == { << Listing[n] >> : n \in { 2, 3, 5, 6, 8 } }

InitLive ==
  /\ root = "dir"
  /\ disk \in LiveDisks
  /\ pc = "validate"
  /\ romFiles = <<>>
  /\ archiveFiles = <<>>
  /\ i = 1
  /\ j = 1
  /\ k = 1
  /\ extractedROMs = <<>>
  /\ fileStats = 0
  /\ results = <<>>
  /\ origins = <<>>
  /\ tempDirsToCleanup = <<>>
  /\ tempDirs = [d \in {} |-> EmptyDir]
  /\ nTemp = 0
  /\ hashOps = {}
  /\ extractOps = {}
  /\ awaited = Pending
  /\ now = 0
  /\ faults = 0
  /\ extractLog = <<>>
  /\ hashLog = Null
  /\ thrown = Null
  /\ debug = FALSE
  /\ diagnostics = {}
  /\ ApartIdle

NextLive ==
  \/ Next
  \/ OnHashHang
  \/ OnZipReadStreamError

\* the files are listed and the loops of scanDirectory run
Walked == pc \notin { "validate", "discover" }

\* once the loops run, a step that can be taken is taken: a callback that is
\* due runs, a timer that is due fires, and the clock moves on
SpecLive == InitLive /\ [][NextLive]_vars /\ WF_vars(Walked /\ NextLive)

(***************************************************************************)
(* Vocabulary of the properties.                                           *)
(***************************************************************************)
Done == pc = "done"

HasHash(r) == Field(r, "hash") # Null

HasError(r) == Field(r, "error") # Null

IsTimeoutError(r) ==
  HasError(r) /\ r.error[1] = "Timeout: File hashing exceeded 30 minutes for "

\* no failure was injected and no hash timed out
NoFailures == faults = 0 /\ \A n \in 1..Len(results) : ~IsTimeoutError(results[n])

\* the results recorded for an item
ResultsOf(origin) == { n \in 1..Len(origins) : origins[n] = origin }

\* the results recorded for a directory entry and for its members
ResultsOfFile(name) == { n \in 1..Len(origins) : origins[n].file = name }

DiskPos(name) == CHOOSE n \in 1..Len(disk) : disk[n].name = name

RomFilesOnDisk ==
  { n \in 1..Len(disk) : disk[n].type = "file" /\ isRomFile(disk[n].name) }

ArchivesOnDisk ==
  { n \in 1..Len(disk) : disk[n].type = "file" /\ isArchiveFile(disk[n].name) }

\* the members of an archive that are files with a ROM extension
RomMembers(e) ==
  { m \in 1..Len(e.members) : ~e.members[m].isDir /\ isRomFile(e.members[m].name) }

\* the last ROM member of the archive whose base name is that of member m
LastOfName(e, m) ==
  LET same == { x \in RomMembers(e) : e.members[x].name = e.members[m].name }
  IN e.members[CHOOSE x \in same : \A y \in same : y <= x]

(***************************************************************************)
(* C1: when scanDirectory returns, no temporary directory created during   *)
(* the scan exists any more, whatever failures occurred.                   *)
(***************************************************************************)
C1_NoScratchLeftBehind == Done => DOMAIN tempDirs = {}

(***************************************************************************)
(* C2: every result has exactly one of hash and error (an absent field     *)
(* counts as null).                                                        *)
(***************************************************************************)
C2_HashXorError ==
  \A n \in 1..Len(results) : HasHash(results[n]) # HasError(results[n])

C2_Witness ==
  /\ Done
  /\ \E a, b \in 1..Len(results) :
       /\ HasHash(results[a]) /\ "size" \in DOMAIN results[a]
       /\ HasError(results[b]) /\ "archiveName" \notin DOMAIN results[b]
       /\ origins[b].member > 0

(***************************************************************************)
(* C3: after validation the scan does not fail, and every item ends with   *)
(* exactly one result: each ROM file one, each archive either one for the  *)
(* archive or one for each of its ROM members.                             *)
(***************************************************************************)
C3_EveryItemRecorded ==
  /\ pc = "failed" => root # "dir"
  /\ Done =>
       /\ thrown = Null
       /\ \A n \in RomFilesOnDisk :
            Cardinality(ResultsOf(Origin(disk[n].name, 0))) = 1
       /\ \A n \in ArchivesOnDisk :
            \/ /\ Cardinality(ResultsOfFile(disk[n].name)) = 1
               /\ HasError(results[CHOOSE x \in ResultsOfFile(disk[n].name) : TRUE])
            \/ /\ ResultsOf(Origin(disk[n].name, 0)) = {}
               /\ \A m \in RomMembers(disk[n]) :
                    Cardinality(ResultsOf(Origin(disk[n].name, m))) = 1

(***************************************************************************)
(* C4: a missing root fails with "Directory not found", a root that is not *)
(* a directory with "Not a directory"; a failed scan has discovered,       *)
(* hashed and extracted nothing.                                           *)
(***************************************************************************)
C4_ValidationFailsFirst ==
  /\ (root = "missing" /\ pc # "validate") =>
       pc = "failed" /\ thrown = Err("Directory not found: ", RootDir)
  /\ (root = "file" /\ pc # "validate") =>
       pc = "failed" /\ thrown = Err("Not a directory: ", RootDir)
  /\ pc = "failed" =>
       /\ results = <<>> /\ romFiles = <<>> /\ archiveFiles = <<>>
       /\ nTemp = 0 /\ hashOps = {} /\ extractOps = {}

C4_Witness == pc = "failed" /\ root = "file"

(***************************************************************************)
(* C5: an extraction that resolved with no member is recorded as one       *)
(* "No ROM files found in archive" error for the archive; one that         *)
(* resolved with members is recorded as one result per extracted member,   *)
(* in order, and none for the archive.                                     *)
(***************************************************************************)
C5_OneResultPerExtractedRom ==
  Done =>
    \A e \in 1..Len(extractLog) :
      LET file == extractLog[e].file
          yielded == extractLog[e].yielded
          mine == ResultsOfFile(file)
      IN IF yielded = <<>>
         THEN /\ mine = ResultsOf(Origin(file, 0))
              /\ Cardinality(mine) = 1
              /\ \A n \in mine :
                   /\ results[n].error = Err("No ROM files found in archive", "")
                   /\ ~HasHash(results[n])
         ELSE /\ Cardinality(mine) = Len(yielded)
              /\ \A x \in 1..Len(yielded) :
                   \E n \in mine :
                     /\ origins[n] = Origin(file, yielded[x].idx)
                     /\ Cardinality({ y \in mine : y < n }) = x - 1

C5_Witness ==
  /\ Done
  /\ \E a, b \in 1..Len(extractLog) :
       /\ extractLog[a].yielded = <<>>
       /\ Len(extractLog[b].yielded) = 2
       /\ \E n \in ResultsOfFile(extractLog[b].file) : HasError(results[n])

(***************************************************************************)
(* C6: every result of an archive member carries archiveName and romName   *)
(* and has the archive's path; no result of a ROM file on disk carries     *)
(* either.                                                                 *)
(***************************************************************************)
C6_MemberProvenance ==
  \A n \in 1..Len(results) :
    IF origins[n].member > 0
    THEN /\ Field(results[n], "archiveName") # Null
         /\ Field(results[n], "romName") # Null
         /\ results[n].path = Path(RootDir, origins[n].file)
    ELSE isRomFile(origins[n].file) =>
           /\ Field(results[n], "archiveName") = Null
           /\ Field(results[n], "romName") = Null

(***************************************************************************)
(* C7: in a scan without failures every ROM file and every ROM member has  *)
(* exactly one result, without error; it holds the MD5 of the file's       *)
(* bytes, a member's the MD5 of the bytes staged under its base name; no   *)
(* other member is staged or reported.                                     *)
(***************************************************************************)
OnlyRomsStaged ==
  \A d \in DOMAIN tempDirs : \A name \in DOMAIN tempDirs[d] : isRomFile(name)

\* what a scan without failures reports, given the bytes a member's result
\* is to carry
CleanScanReports(BytesOf(_, _)) ==
  /\ \A n \in RomFilesOnDisk :
       /\ Cardinality(ResultsOf(Origin(disk[n].name, 0))) = 1
       /\ \A x \in ResultsOf(Origin(disk[n].name, 0)) :
            results[x].hash = MD5(disk[n].data) /\ ~HasError(results[x])
  /\ \A n \in ArchivesOnDisk :
       /\ \A m \in RomMembers(disk[n]) :
            /\ Cardinality(ResultsOf(Origin(disk[n].name, m))) = 1
            /\ \A x \in ResultsOf(Origin(disk[n].name, m)) :
                 /\ results[x].hash = MD5(BytesOf(disk[n], m))
                 /\ ~HasError(results[x])
       /\ \A x \in ResultsOfFile(disk[n].name) :
            origins[x].member \in RomMembers(disk[n])
            \/ (RomMembers(disk[n]) = {} /\ origins[x].member = 0)
  /\ \A x \in 1..Len(origins) :
       DiskPos(origins[x].file) \in RomFilesOnDisk \cup ArchivesOnDisk

OwnBytes(e, m) == e.members[m].data

StagedBytes(e, m) == LastOfName(e, m).data

C7_CleanScanHashesOwnBytes ==
  /\ OnlyRomsStaged
  /\ (Done /\ NoFailures) => CleanScanReports(OwnBytes)

C7_CleanScanHashesStagedBytes ==
  /\ OnlyRomsStaged
  /\ (Done /\ NoFailures) => CleanScanReports(StagedBytes)

C7_Witness ==
  /\ Done /\ NoFailures
  /\ \E a, b \in 1..Len(results) :
       /\ origins[a] = Origin(<<"dupes", "Zip">>, 1)
       /\ origins[b] = Origin(<<"dupes", "Zip">>, 2)
       /\ results[a].hash = MD5(Data("Q", 4))
       /\ results[b].hash = MD5(Data("Q", 4))
       /\ results[a].romName = <<"game", "nes">>

(***************************************************************************)
(* C8: the results are in processing order: ROM files in discovery order,  *)
(* then archives in discovery order, the members of an archive in member   *)
(* list order.                                                             *)
(***************************************************************************)
Precedes(x, y) ==
  IF x.file = y.file THEN x.member < y.member
  ELSE IF isRomFile(x.file) # isRomFile(y.file) THEN isRomFile(x.file)
  ELSE DiskPos(x.file) < DiskPos(y.file)

C8_ProcessingOrder ==
  /\ Len(origins) = Len(results)
  /\ \A n \in 1..Len(results) : results[n].path = Path(RootDir, origins[n].file)
  /\ \A a, b \in 1..Len(origins) : a < b => Precedes(origins[a], origins[b])

C8_Witness ==
  /\ Done
  /\ Len(disk) = 2
  /\ disk[1].name = <<"dupes", "Zip">>
  /\ disk[2].name = <<"mario", "sfc">>
  /\ origins = << Origin(<<"mario", "sfc">>, 0), Origin(<<"dupes", "Zip">>, 1),
                  Origin(<<"dupes", "Zip">>, 2) >>

(***************************************************************************)
(* C9: at most one hash or extraction is in flight at any instant, and it  *)
(* is the one scanDirectory is waiting for.                                *)
(***************************************************************************)
C9_OneOperationAtATime ==
  /\ Cardinality(hashOps) + Cardinality(extractOps) <= 1
  /\ hashOps # {} => pc \in { "rom_await", "member_await" } /\ awaited = Pending
  /\ extractOps # {} => pc = "archive_await" /\ awaited = Pending
  /\ \A op \in hashOps :
       op.path = IF pc = "rom_await" THEN romFiles[i].filePath
                 ELSE extractedROMs[k].path
  /\ \A op \in extractOps : op.archivePath = archiveFiles[j].filePath

C9_Witness ==
  /\ Len(results) >= 1
  /\ \E op \in hashOps : op.state = "stream" /\ op.bytesRead > 0
  /\ pc = "member_await"

(***************************************************************************)
(* C10: no hash operation is pending more than 30 minutes after its start. *)
(***************************************************************************)
C10_TimeoutCeiling ==
  \A op \in hashOps : now - op.start <= HASH_TIMEOUT_MS

(***************************************************************************)
(* Properties of calculateMD5 on its own (SpecHash).                       *)
(***************************************************************************)
HashSettled == hashLog # Null

HashSucceeded == HashSettled /\ hashLog.outcome.state = "resolved"

HashFailed == HashSettled /\ hashLog.outcome.state = "rejected"

\* the file the call was made on, as it is on disk
HashedFile == FileAt(Path(RootDir, <<"image", "iso">>)).data

\* C11: when calculateMD5 succeeds on a file of any size, the empty file
\* included, onProgress was called at least once, the percents it was given
\* never decrease, and its last call reports 100% with bytesRead equal to
\* totalBytes.
C11_ProgressEndsAtHundred ==
  HashSucceeded =>
    LET calls == hashLog.op.progress
        total == HashedFile.size
    IN /\ calls # <<>>
       /\ \A n \in 1..(Len(calls) - 1) : calls[n].percent <= calls[n + 1].percent
       /\ Last(calls) = [percent |-> 100, bytesRead |-> total, totalBytes |-> total]

\* the same for the files that have at least one byte
C11_ProgressOfNonEmptyFiles ==
  (HashSucceeded /\ HashedFile.size > 0) =>
    LET calls == hashLog.op.progress
        total == HashedFile.size
    IN /\ calls # <<>>
       /\ \A n \in 1..(Len(calls) - 1) : calls[n].percent <= calls[n + 1].percent
       /\ Last(calls) = [percent |-> 100, bytesRead |-> total, totalBytes |-> total]

HashErrors ==
  { "Cannot read file stats: ", "Failed to hash file: ",
    "Failed to read file stream: ", "Timeout: File hashing exceeded 30 minutes for " }

\* C12: a calculateMD5 call that fails (stat, a read, the stream, the timer)
\* hands its caller an error and nothing else; a call hands its caller a
\* digest only when every byte of the file was fed to the hash, and the
\* digest is then the one of the whole file.
C12_DigestOnlyOfWholeFile ==
  HashSettled =>
    LET op == hashLog.op
        out == hashLog.outcome
    IN /\ hashOps = {}
       /\ awaited = out
       /\ out.state = "rejected" => out.value[1] \in HashErrors
       /\ out.state = "resolved" =>
            /\ op.bytesRead = HashedFile.size
            /\ op.fed = Feed(<<>>, 0, HashedFile.size)
            /\ out.value = MD5(HashedFile)

\* the timer fired after part of the file had been fed to the hash
C12_Witness ==
  /\ HashFailed
  /\ hashLog.outcome.value[1] = "Timeout: File hashing exceeded 30 minutes for "
  /\ hashLog.op.bytesRead > 0
  /\ hashLog.op.bytesRead < HashedFile.size

\* C13: on both read strategies and for every buffer size, what has been fed
\* to the hash is at each moment the first bytesRead bytes of the file, once
\* each and in ascending order; the digest of a content is therefore the
\* MD5 of the content whatever the buffer size was.
C13_FedInOrderOnce ==
  /\ \A op \in hashOps :
       /\ op.bytesRead <= op.fileSize
       /\ op.fed = Feed(<<>>, 0, op.bytesRead)
  /\ HashSucceeded =>
       /\ hashLog.op.fed = Feed(<<>>, 0, HashedFile.size)
       /\ hashLog.outcome.value = Digest(HashedFile.id, Feed(<<>>, 0, HashedFile.size))

\* a file read in many chunks by positional reads has been hashed
C13_Witness ==
  /\ HashSucceeded
  /\ useDirectRead(hashLog.op.fileSize)
  /\ hashLog.op.fileSize > 2 * bufferSize(hashLog.op.fileSize)
  /\ bufferSize(hashLog.op.fileSize) = 16 * MB


(***************************************************************************)
(* Properties of the classifier (SpecClassify).                            *)
(***************************************************************************)
Classified == pc # "discover"

InRomFiles(name) == \E n \in 1..Len(romFiles) : romFiles[n].filename = name

InArchiveFiles(name) == \E n \in 1..Len(archiveFiles) : archiveFiles[n].filename = name

\* the class the discovery step gave a name
classify(name) ==
  IF InRomFiles(name) /\ InArchiveFiles(name) THEN "ROM and ARCHIVE"
  ELSE IF InRomFiles(name) THEN "ROM"
  ELSE IF InArchiveFiles(name) THEN "ARCHIVE"
  ELSE "IGNORED"

\* C14: the two extension sets are disjoint and every name gets exactly one
\* of the classes ROM, ARCHIVE, IGNORED; two names whose final extensions
\* differ only in letter case, or of which one has an earlier extension
\* before the same final one, get the same class.
C14_ClassifyByFinalExtension ==
  /\ ROM_EXTENSIONS \cap ARCHIVE_EXTENSIONS = {}
  /\ Classified =>
       /\ \A n \in 1..Len(disk) :
            classify(disk[n].name) \in { "ROM", "ARCHIVE", "IGNORED" }
       /\ Len(disk) = 2 => classify(disk[1].name) = classify(disk[2].name)

\* game.nes and game.zip.nes were classified, both as ROM
C14_Witness ==
  /\ Classified
  /\ Len(disk) = 2
  /\ disk[2].name = <<"game", "zip", "nes">>
  /\ classify(disk[1].name) = "ROM"
  /\ classify(disk[2].name) = "ROM"

DocumentedRomExtensions ==
  { ".nes", ".fds", ".sfc", ".smc", ".gb", ".gbc", ".gba", ".n64", ".z64",
    ".v64", ".md", ".smd", ".gen", ".bin", ".sms", ".gg", ".iso", ".cue",
    ".chd", ".pce", ".a26", ".a78", ".lnx", ".rom" }

DocumentedArchiveExtensions == { ".zip", ".7z", ".rar" }

\* C15: every extension the help text and the README table name is in the
\* tables, and a file with such an extension is classified accordingly: the
\* 24 documented ROM extensions as ROM, .zip .7z .rar as ARCHIVE.
C15_DocumentedExtensionsClassified ==
  /\ DocumentedRomExtensions \subseteq ROM_EXTENSIONS
  /\ DocumentedArchiveExtensions \subseteq ARCHIVE_EXTENSIONS
  /\ Classified =>
       \A n \in 1..Len(disk) :
         LET name == disk[n].name
         IN (Len(name) = 2 /\ name[1] = "game") =>
              /\ Dot(name[2]) \in DocumentedRomExtensions => classify(name) = "ROM"
              /\ Dot(name[2]) \in DocumentedArchiveExtensions
                   => classify(name) = "ARCHIVE"

\* game.fds and game.FDS were classified as ROM
C15_Witness ==
  /\ Classified
  /\ Len(disk) = 2
  /\ disk[1].name = <<"game", "fds">>
  /\ disk[2].name = <<"game", "FDS">>
  /\ classify(disk[1].name) = "ROM"
  /\ classify(disk[2].name) = "ROM"

(***************************************************************************)
(* Properties of the archive adapters (SpecExtract) and of the scratch     *)
(* directories of a scan (Spec).                                           *)
(***************************************************************************)
NoRomMember(members) == \A n \in 1..Len(members) : ~IsRomEntry(members[n])

\* the archive the archive loop is at
CurrentArchive == disk[DiskPos(archiveFiles[j].filename)]

\* extractROMsFromArchive has returned to the archive loop, which has not
\* resumed yet
ExtractReturned == pc = "archive_await" /\ awaited.state = "resolved"

ExtractFailed == pc = "archive_await" /\ awaited.state = "rejected"

\* C16: while an adapter works on an archive without any ROM member, the
\* scratch directory of the call does not exist.
C16_NoScratchWithoutRomMember ==
  \A op \in extractOps :
    NoRomMember(op.members) => op.tempDir \notin DOMAIN tempDirs

\* C17: when an adapter returns from an archive without any ROM member, of
\* whichever format, it returns the empty sequence and no temporary
\* directory is on disk.
C17_ZeroRomArchiveLeavesNothing ==
  (ExtractReturned /\ NoRomMember(CurrentArchive.members)) =>
    /\ awaited.value = <<>>
    /\ nTemp = 1
    /\ DOMAIN tempDirs = {}

\* a 7z archive holding two text files has been listed
C17_Witness ==
  /\ ExtractReturned
  /\ extname(CurrentArchive.name) = ".7z"
  /\ Len(CurrentArchive.members) = 2
  /\ NoRomMember(CurrentArchive.members)
  /\ awaited.value = <<>>

\* C18: when an adapter fails, of whichever format, the scratch directory
\* the call created is gone by the time the failure reaches the caller.
C18_FailedAdapterRemovedScratch ==
  ExtractFailed => TempDir(nTemp) \notin DOMAIN tempDirs

\* the same for the 7z and rar adapters alone
C18_FailedSevenOrRarRemovedScratch ==
  (ExtractFailed /\ extname(CurrentArchive.name) \in { ".7z", ".rar" }) =>
    TempDir(nTemp) \notin DOMAIN tempDirs

IsSevenZip(name) == extname(name) = ".7z"

\* the archive loop has gone past the archive of this name
Processed(name) ==
  \E n \in 1..Len(archiveFiles) : archiveFiles[n].filename = name /\ n < j

\* the extraction of the archive of this name yielded members
Yielded(name) == \E e \in 1..Len(extractLog) : extractLog[e].file = name

C20_ScratchDeletedBeforeNextArchive ==
  faults = 0 =>
    /\ pc = "archives" =>
         \A n \in 1..Len(tempDirsToCleanup) :
           tempDirsToCleanup[n] \notin DOMAIN tempDirs
    /\ Cardinality(DOMAIN tempDirs) <= 1

(***************************************************************************)
(* Progress cadence (SpecHash) and name collisions (SpecExtract).          *)
(***************************************************************************)
\* the calculateMD5 calls in flight and the one that settled
HashCalls == hashOps \cup (IF HashSettled THEN { hashLog.op } ELSE {})

\* the bytes read between the call before call n and call n
ReadSincePreviousCall(calls, n) ==
  calls[n].bytesRead - (IF n = 1 THEN 0 ELSE calls[n - 1].bytesRead)

\* C29: every call of onProgress except the one at 100% comes at least
\* min(5% of the file size, 100 MB) read bytes after the call before it.
C29_ProgressThrottled ==
  \A op \in HashCalls :
    \A n \in 1..Len(op.progress) :
      LET call == op.progress[n]
          since == ReadSincePreviousCall(op.progress, n)
      IN call.bytesRead # call.totalBytes =>
           (since * 20 >= call.totalBytes \/ since >= 100 * MB)

\* the same for the calls that read by position (files above 100 MB)
C29_PositionalReadsThrottled ==
  \A op \in HashCalls :
    useDirectRead(op.fileSize) =>
      \A n \in 1..Len(op.progress) :
        LET call == op.progress[n]
            since == ReadSincePreviousCall(op.progress, n)
        IN call.bytesRead # call.totalBytes =>
             (since * 20 >= call.totalBytes \/ since >= 100 * MB)

\* two ROM members of the archive have the same base name
Collides(e) ==
  \E a, b \in RomMembers(e) : a < b /\ e.members[a].name = e.members[b].name

Classifiable(e) == e.type = "file" /\ (isRomFile(e.name) \/ isArchiveFile(e.name))

\* the positions, level by level, of the classifiable files that lie in
\* directories the walker could read
WalkablePositions ==
  { <<a>> : a \in { a \in 1..Len(disk) : Classifiable(disk[a]) } }
  \cup UNION { { <<a, b>> : b \in { b \in 1..Len(disk[a].members) :
                                     Classifiable(disk[a].members[b]) } } :
               a \in { a \in 1..Len(disk) : disk[a].type = "dir" } }
  \cup UNION { UNION { { <<a, b, c>> :
                         c \in { c \in 1..Len(disk[a].members[b].members) :
                                 Classifiable(disk[a].members[b].members[c]) } } :
                       b \in { b \in 1..Len(disk[a].members) :
                               disk[a].members[b].type = "dir" } } :
               a \in { a \in 1..Len(disk) : disk[a].type = "dir" } }

\* the path relative to the root of the entry at a position
RelativePathAt(p) ==
  IF Len(p) = 1 THEN << disk[p[1]].name >>
  ELSE IF Len(p) = 2 THEN << disk[p[1]].name, disk[p[1]].members[p[2]].name >>
  ELSE << disk[p[1]].name, disk[p[1]].members[p[2]].name,
          disk[p[1]].members[p[2]].members[p[3]].name >>

FoundPaths ==
  { romFiles[n].relativePath : n \in 1..Len(romFiles) }
  \cup { archiveFiles[n].relativePath : n \in 1..Len(archiveFiles) }

\* C28: the walker reports exactly the ROM and archive files of the
\* directories it could read: a directory that cannot be read, or an entry
\* whose type cannot be read, takes away only itself and what lies below it.
C28_WalkIsBestEffort ==
  Classified =>
    /\ FoundPaths = { RelativePathAt(p) : p \in WalkablePositions }
    /\ Len(romFiles) + Len(archiveFiles) = Cardinality(WalkablePositions)

\* sub/deep/e.gb, listed after an entry whose type cannot be read, was found
\* in a root whose other directory cannot be read
C28_Witness ==
  /\ Classified
  /\ Len(disk) = 2
  /\ disk[1].name = <<"sub">>
  /\ Len(disk[1].members) = 2
  /\ disk[1].members[1].type = "unreadable"
  /\ disk[1].members[2].name = <<"deep">>
  /\ disk[2].type = "unreadable dir"
  /\ FoundPaths = { << <<"sub">>, <<"deep">>, <<"e", "gb">> >> }

(***************************************************************************)
(* DEBUG.                                                                  *)
(***************************************************************************)
\* a step of the scan as the program takes it when process.env.DEBUG is d
ScanStep(d) ==
  \/ Validate
  \/ DiscoverIn(d)
  \/ RomBegin
  \/ RomResumeIn(d)
  \/ ArchiveBegin
  \/ ArchiveResume
  \/ MemberBegin
  \/ MemberResume
  \/ CleanupIn(d)
  \/ OnHashStat
  \/ OnHashOpen
  \/ OnHashRead
  \/ OnHashData
  \/ OnHashEnd
  \/ OnHashStreamError
  \/ OnHashTimeout
  \/ Clock
  \/ OnZipOpen
  \/ OnZipEntry
  \/ OnZipEnd
  \/ OnZipError
  \/ OnZipWriteError
  \/ OnSevenList
  \/ OnSevenExtract
  \/ OnRarExtract

MalformedListed(ext) ==
  { e \in 1..Len(listLog) : listLog[e].malformed /\ extname(listLog[e].file) = ext }

\* C21: listRomFiles never fails, and a malformed archive of any of the three
\* formats contributes no name to the listing
C21_MalformedContributesNothing ==
  /\ pc # "failed"
  /\ \A ext \in ARCHIVE_EXTENSIONS :
       \A e \in MalformedListed(ext) : listLog[e].contributed = <<>>

\* C21, for the two formats listRomFiles opens: a malformed zip or 7z
\* contributes no name and the listing goes on
C21_MalformedZipAnd7zContributeNothing ==
  /\ pc # "failed"
  /\ \A ext \in { ".zip", ".7z" } :
       \A e \in MalformedListed(ext) : listLog[e].contributed = <<>>

\* a listing that returned after a malformed zip and a malformed 7z
C21_Witness ==
  /\ pc = "listed"
  /\ MalformedListed(".zip") # {}
  /\ MalformedListed(".7z") # {}

(***************************************************************************)
(* The platform suggestion.                                                *)
(***************************************************************************)
\* suggestConsole has returned
Suggested == pc \in { "select", "confirm", "choose", "selected", "exited" }

\* the lowercased leaf folder name of the scan root
FolderName == lower(basename(resolve(directory)))

\* the positions of the platforms that pass the folder-name test
Satisfying == { n \in 1..Len(consoles) : folderNameTest(FolderName, consoles[n]) }

Least(S) == CHOOSE n \in S : \A m \in S : n <= m

\* C22: the call of suggestConsole returns nothing or one of the objects of
\* the platform list it was given, and leaves the platform list and the list
\* of names as they were
C22_ReturnsElementOfList ==
  [][pc = "suggest" =>
       /\ consoles' = consoles
       /\ result' = result
       /\ \/ suggestedConsole' = <<>>
          \/ \E n \in 1..Len(consoles) : suggestedConsole' = << consoles[n] >>]_vars

\* the second platform of a list of two was returned
C22_Witness ==
  /\ Suggested
  /\ Len(consoles) = 2
  /\ suggestedConsole = << consoles[2] >>

\* C23: when some platform of the list passes the folder-name test, the
\* first of them in list order is returned, whatever the names listed; the
\* extension phase decides only when no platform passes the test
C23_FirstFolderMatchWins ==
  Suggested =>
    /\ Satisfying # {} => suggestedConsole = << consoles[Least(Satisfying)] >>
    /\ suggestLog.phase = "extension" => Satisfying = {}

\* C23, for a call that passes the guard of suggestConsole with a directory
\* that is not the empty path
C23_FirstFolderMatchWinsPastGuard ==
  Suggested /\ result # <<>> /\ directory # <<>> =>
    /\ Satisfying # {} => suggestedConsole = << consoles[Least(Satisfying)] >>
    /\ suggestLog.phase = "extension" => Satisfying = {}

\* the folder SNES Collection holds only .sfc files and the platform list
\* includes {id: 3, name: "Super Nintendo Entertainment System"}
SnesScenario ==
  /\ FolderName = << "s", "n", "e", "s", " ", "c", "o", "l", "l", "e", "c", "t", "i", "o", "n" >>
  /\ result # <<>>
  /\ \A n \in 1..Len(result) : extname(Last(result[n])) = ".sfc"
  /\ \E n \in 1..Len(consoles) :
       /\ consoles[n].id = 3
       /\ lower(consoles[n].name) = lower(EXTENSION_TO_CONSOLE(".sfc")[1])

\* C24: in the scenario suggestConsole returns the platform with id 3, and
\* returns it from the folder-name phase
C24_SnesCollectionByFolderName ==
  Suggested /\ SnesScenario =>
    /\ suggestedConsole # <<>>
    /\ suggestedConsole[1].id = 3
    /\ suggestLog.phase = "folder"

\* C24 without the phase: in the scenario the platform with id 3 is returned
C24_SnesCollectionReturnsSnes ==
  Suggested /\ SnesScenario =>
    /\ suggestedConsole # <<>>
    /\ suggestedConsole[1].id = 3

\* the lowercased extension of the n-th name listed
ExtensionAt(n) == extname(Last(result[n]))

Occurrences(ext) == Cardinality({ n \in 1..Len(result) : ExtensionAt(n) = ext })

FirstOccurrence(ext) == Least({ n \in 1..Len(result) : ExtensionAt(n) = ext })

\* the extension with the highest count, the earliest to occur among equals
MajorityExtension ==
  CHOOSE ext \in { ExtensionAt(n) : n \in 1..Len(result) } :
    \A other \in { ExtensionAt(n) : n \in 1..Len(result) } :
      \/ Occurrences(ext) > Occurrences(other)
      \/ /\ Occurrences(ext) = Occurrences(other)
         /\ FirstOccurrence(ext) <= FirstOccurrence(other)

\* C25: the extension phase looks up the extension that occurs most often
\* among the names, upper and lower case counted together, and among the
\* extensions that occur equally often the one that occurs first; that
\* extension decides what is returned
C25_MajorityExtensionLookedUp ==
  Suggested /\ suggestLog.phase = "extension" =>
    /\ suggestLog.ext = MajorityExtension
    /\ suggestedConsole =
         IF EXTENSION_TO_CONSOLE(MajorityExtension) = <<>>
            \/ extensionPhase(EXTENSION_TO_CONSOLE(MajorityExtension), consoles, 1) = 0
         THEN <<>>
         ELSE << consoles[extensionPhase(EXTENSION_TO_CONSOLE(MajorityExtension),
                                         consoles, 1)] >>

\* .sfc was looked up for three names of which the first is a .nes and the
\* other two are a .sfc and a .SFC, and a platform was returned
C25_Witness ==
  /\ Suggested
  /\ suggestLog.phase = "extension"
  /\ Len(result) = 3
  /\ ExtensionAt(1) = ".nes"
  /\ Last(result[2]) # Last(result[3])
  /\ suggestLog.ext = ".sfc"
  /\ suggestedConsole # <<>>


(***************************************************************************)
(* C26: the suggestion is put to the user and never applied on its own.    *)
(***************************************************************************)
\* the user answered the confirmation prompt with yes
ConfirmedSuggestion ==
  \E p \in 1..Len(prompts) :
    prompts[p].type = "confirm" /\ prompts[p].answer = TRUE

\* the platform the user picked in the full selection list, when p is that prompt
Picked(p) == << consoles[prompts[p].answer] >>

C26_DeclinedWitness ==
  /\ pc = "selected"
  /\ Len(prompts) = 2
  /\ prompts[1] = [type |-> "confirm", answer |-> FALSE]
  /\ suggestedConsole # <<>>
  /\ selectedConsole # suggestedConsole

\* --system names another platform than the suggested one
C26_SystemWitness ==
  /\ pc = "selected"
  /\ options.system # ""
  /\ suggestedConsole # <<>>
  /\ selectedConsole # suggestedConsole


(***************************************************************************)
(* extractROMsFromArchive called on one path of any extension: an archive  *)
(* extension in either case, another extension, several dots, no           *)
(* extension.  The caller is the archive loop, given the path as its only  *)
(* archive.                                                                *)
(***************************************************************************)
DispatchNames ==
  { <<"pack", "zip">>, <<"pack", "ZIP">>, <<"pack", "7z">>, <<"pack", "7Z">>,
    <<"pack", "rar">>, <<"pack", "Rar">>, <<"pack", "tar">>, <<"pack", "tar", "gz">>,
    <<"pack", "zip", "txt">>, <<"pack", "bin">>, <<"pack">> }

DispatchDisks ==
  { << Entry(name, "file", Data("A", 9), members) >> :
    name \in DispatchNames, members \in MemberLists }

InitDispatch ==
  /\ root = "dir"
  /\ disk \in DispatchDisks
  /\ pc = "archives"
  /\ romFiles = <<>>
  /\ archiveFiles = << [filename |-> disk[1].name,
                        filePath |-> Path(RootDir, disk[1].name),
                        relativePath |-> << disk[1].name >>] >>
  /\ i = 1
  /\ j = 1
  /\ k = 1
  /\ extractedROMs = <<>>
  /\ fileStats = 0
  /\ results = <<>>
  /\ origins = <<>>
  /\ tempDirsToCleanup = <<>>
  /\ tempDirs = [d \in {} |-> EmptyDir]
  /\ nTemp = 0
  /\ hashOps = {}
  /\ extractOps = {}
  /\ awaited = Pending
  /\ now = 0
  /\ faults = 0
  /\ extractLog = <<>>
  /\ hashLog = Null
  /\ thrown = Null
  /\ debug = FALSE
  /\ diagnostics = {}
  /\ ApartIdle

SpecDispatch == InitDispatch /\ [][NextExtract]_vars

(***************************************************************************)
(* C31: the adapter is chosen by the lowercased extension alone.           *)
(***************************************************************************)
\* the lowercased extension of the path extractROMsFromArchive was given
DispatchedExt == extname(archiveFiles[1].filePath.name)

\* the states a call is in while the adapter of the extension runs
AdapterStates(ext) ==
  CASE ext = ".zip" -> { "zip_open", "zip_entries" }
    [] ext = ".7z" -> { "7z_list", "7z_extract" }
    [] ext = ".rar" -> { "rar_create" }
    [] OTHER -> {}

\* C31: a call that runs is in the adapter of the path's lowercased
\* extension, whatever the archive holds; a path with any other extension
\* rejects with "Unsupported archive format: <ext>", no temporary directory
\* is ever created for it and no adapter starts.
C31_DispatchByExtension ==
  /\ \A op \in extractOps : op.state \in AdapterStates(DispatchedExt)
  /\ DispatchedExt \notin ARCHIVE_EXTENSIONS =>
       /\ extractOps = {}
       /\ nTemp = 0
       /\ DOMAIN tempDirs = {}
       /\ pc = "archive_await" =>
            awaited = Rejected(Err("Unsupported archive format: ", DispatchedExt))
  /\ DispatchedExt \in ARCHIVE_EXTENSIONS /\ pc = "archive_await" =>
       /\ nTemp = 1
       /\ awaited.state = "rejected" =>
            awaited.value # Err("Unsupported archive format: ", DispatchedExt)

\* the dispatch refused a path whose name holds "zip" before its last dot
C31_Witness ==
  /\ pc = "archive_await"
  /\ archiveFiles[1].filename = <<"pack", "zip", "txt">>
  /\ awaited = Rejected(Err("Unsupported archive format: ", ".txt"))
  /\ nTemp = 0

\* an upper-case extension reached the zip adapter
C31_UpperCaseWitness ==
  /\ archiveFiles[1].filename = <<"pack", "ZIP">>
  /\ \E op \in extractOps : op.state = "zip_entries"


(***************************************************************************)
(* C33: the buffer size is a step function that never decreases.           *)
(***************************************************************************)
\* file sizes at, just below and just above every step, and far above the last
BufferProbes ==
  UNION { { t - 1, t, t + 1 } : t \in { 1, 10 * MB, 100 * MB, 500 * MB, GB,
                                        2 * GB, 4 * GB, 8 * GB } }

\* C33: the buffer chosen for the file being hashed is not below 64 KB and
\* not above 16 MB; it is not smaller than the buffer of any smaller file and
\* not larger than the buffer of any larger file; and the same holds between
\* any two sizes around the steps.
C33_BufferSizeMonotone ==
  /\ \A op \in hashOps :
       /\ bufferSize(op.fileSize) >= 64 * KB
       /\ bufferSize(op.fileSize) <= 16 * MB
       /\ \A s \in BufferProbes :
            /\ s <= op.fileSize => bufferSize(s) <= bufferSize(op.fileSize)
            /\ op.fileSize <= s => bufferSize(op.fileSize) <= bufferSize(s)
  /\ hashOps # {} =>
       \A a, b \in BufferProbes :
         /\ a <= b => bufferSize(a) <= bufferSize(b)
         /\ bufferSize(a) \in { 64 * KB, MB, 2 * MB, 4 * MB, 8 * MB, 12 * MB, 16 * MB }
  /\ hashOps # {} => bufferSize(0) = 64 * KB /\ bufferSize(8 * GB) = 16 * MB

\* a file between 2 GB and 4 GB is being read with the 12 MB buffer
C33_Witness ==
  \E op \in hashOps :
    /\ op.fileSize = 2 * GB + 1
    /\ op.bytesRead = bufferSize(op.fileSize)
    /\ bufferSize(op.fileSize) = 12 * MB


(***************************************************************************)
(* C32: --system skips both prompts and selects the platform by its id.    *)
(***************************************************************************)
\* the ids the text given to --system denotes as a number (ids are whole
\* numbers, so a text that is no whole number denotes no id)
IdsGiven(text) ==
  CASE text = "1" -> { 1 }
    [] text = "3" -> { 3 }
    [] text = "9" -> { 9 }
    [] OTHER -> {}

\* some platform of the fetched list has the id given
IdListed == \E n \in 1..Len(consoles) : consoles[n].id \in IdsGiven(options.system)

\* C32 as stated, for every text given to --system: no prompt is shown; a
\* platform is selected only if its id equals the number given; and when no
\* platform of the list has that id, the program exits with status 1 at the
\* selection, with no catalog fetched.
C32_SystemSkipsPrompts ==
  options.given =>
    /\ prompts = <<>>
    /\ pc \notin { "confirm", "choose" }
    /\ selectedConsole # <<>> => selectedConsole[1].id \in IdsGiven(options.system)
    /\ ~IdListed /\ pc \notin { "suggest", "select" } =>
         pc = "exited" /\ exitCode = << 1 >> /\ hashMap = <<>> /\ selectedConsole = <<>>

\* C32 for the texts that are decimal whole numbers: the same statement
C32_DecimalSystemSkipsPrompts ==
  options.system \in { "1", "3", "9" } => C32_SystemSkipsPrompts

\* --system 3 selected the platform with id 3 without a prompt
C32_Witness ==
  /\ options.system = "3"
  /\ pc = "scan"
  /\ prompts = <<>>
  /\ selectedConsole # <<>>
  /\ selectedConsole[1].id = 3

\* --system 9, an id no platform has, ended the program with status 1
C32_ExitWitness ==
  /\ options.system = "9"
  /\ pc = "exited"
  /\ exitCode = << 1 >>
  /\ hashMap = <<>>


(***************************************************************************)
(* C40: the counts of the summary partition the results.                   *)
(***************************************************************************)
\* the report has been displayed
Reported == pc = "reported"

\* the class a compared result is shown in
ClassOf(r) ==
  IF r.match # <<>> THEN "matched"
  ELSE IF truthy(r.error) THEN "errors" ELSE "unmatched"

\* how many compared results are of the class
InClass(class) == Cardinality({ n \in 1..Len(compared) : ClassOf(compared[n]) = class })

\* C40: once the report is displayed, each count of the summary is the number
\* of compared results of its class, so every result is counted in exactly
\* one of the three; no count is negative; the total is their sum and the
\* number of ScanResults; a ScanResult with an error is compared to an
\* unmatched error entry, and only the digests of the results without an
\* error were looked up in the catalog.
C40_SummaryPartitionsResults ==
  Reported =>
    /\ summary # <<>>
    /\ summary[1].matched = InClass("matched")
    /\ summary[1].unmatched = InClass("unmatched")
    /\ summary[1].errors = InClass("errors")
    /\ summary[1].matched >= 0 /\ summary[1].unmatched >= 0 /\ summary[1].errors >= 0
    /\ summary[1].total = summary[1].matched + summary[1].unmatched + summary[1].errors
    /\ summary[1].total = Len(results)
    /\ Len(compared) = Len(results)
    /\ \A n \in 1..Len(results) :
         "error" \in DOMAIN results[n] =>
           /\ ClassOf(compared[n]) = "errors"
           /\ compared[n].match = <<>>
           /\ compared[n].error = results[n].error
    /\ Len(lookups) = Cardinality({ n \in 1..Len(results) : "error" \notin DOMAIN results[n] })
    /\ \A l \in 1..Len(lookups) :
         \E n \in 1..Len(results) :
           "error" \notin DOMAIN results[n] /\ results[n].hash = lookups[l]

\* a report with a matched result and an error result
C40_Witness ==
  /\ Reported
  /\ summary # <<>>
  /\ summary[1].matched >= 1
  /\ summary[1].errors >= 1
  /\ lookups # <<>>

\* a report with an unmatched result and an error result
C40_UnmatchedWitness ==
  /\ Reported
  /\ summary # <<>>
  /\ summary[1].unmatched >= 1
  /\ summary[1].errors >= 1


(***************************************************************************)
(* C38: symbolic links are neither followed nor reported.                  *)
(***************************************************************************)
\* the names of the symbolic links of the trees
LinkNames == { <<"link", "nes">>, <<"roms">>, <<"more", "zip">>, <<"loop">> }

\* the files found, ROM files and archives
Found == romFiles \o archiveFiles

\* the tree holds a link to a file, a link to a directory or a link back
HoldsLink(entries) ==
  \E n \in 1..Len(entries) :
    \/ entries[n].type = "symlink"
    \/ entries[n].type = "dir"
       /\ \E m \in 1..Len(entries[n].members) :
            \/ entries[n].members[m].type = "symlink"
            \/ entries[n].members[m].type = "dir"

\* C38: when the walk of a tree with symbolic links has ended, it has
\* reported exactly the classifiable regular files that lie in real
\* directories, each once (so no directory was walked twice), and no reported
\* path is a symbolic link or passes through one, a link back to the
\* directory holding it included.
C38_LinksNeitherFollowedNorReported ==
  /\ Classified => pc \in { "roms", "archives", "cleanup" }
  /\ Classified =>
       /\ FoundPaths = { RelativePathAt(p) : p \in WalkablePositions }
       /\ Len(Found) = Cardinality(WalkablePositions)
       /\ \A n \in 1..Len(Found) :
            \A x \in 1..Len(Found[n].relativePath) :
              Found[n].relativePath[x] \notin LinkNames

\* the walk of sub/deep, where a link leads back to deep, ended with
\* sub/deep/e.gb found once, next to a link to a directory of ROM files
C38_Witness ==
  /\ Classified
  /\ Len(disk) = 2
  /\ disk[1].name = <<"sub">>
  /\ Len(disk[1].members) = 1
  /\ disk[1].members[1].name = <<"deep">>
  /\ disk[2].name = <<"roms">>
  /\ disk[2].type = "symlink"
  /\ FoundPaths = { << <<"sub">>, <<"deep">>, <<"e", "gb">> >> }
  /\ Len(Found) = 1


(***************************************************************************)
(* C39: the guard of suggestConsole comes before the folder-name phase.    *)
(***************************************************************************)
\* C39: when the list of names or the platform list is empty, suggestConsole
\* returns nothing, from its guard and without trying the folder name, also
\* when a platform passes the folder-name test; and it returns from the guard
\* in no other case.
C39_EmptyListsReturnNone ==
  Suggested =>
    /\ result = <<>> \/ consoles = <<>> =>
         suggestedConsole = <<>> /\ suggestLog.phase = "guard"
    /\ suggestLog.phase = "guard" => result = <<>> \/ consoles = <<>>

\* no name was listed in /roms/Genesis, whose folder name the listed platform
\* Genesis/Mega Drive passes the test with, and nothing was suggested
C39_Witness ==
  /\ Suggested
  /\ result = <<>>
  /\ FolderName = << "g", "e", "n", "e", "s", "i", "s" >>
  /\ Satisfying # {}
  /\ suggestedConsole = <<>>
  /\ suggestLog.phase = "guard"


(***************************************************************************)
(* C34: every scan whose root validates completes.                         *)
(***************************************************************************)
\* scanDirectory has returned or thrown
Returned == pc \in { "done", "failed" }

\* C34 as stated: the scan of a valid root eventually returns: every
\* extraction and every hash it awaits settles, also when the read stream of
\* a zip member fails and when a read of a file never returns.
C34_ScanCompletes == Walked ~> Returned

\* C34 for the stream branch alone: a hash of a file of at most 100 MB that
\* is awaited and whose read never returns is settled by the timer.
C34_StreamHangTimesOut ==
  \A op \in hashOps : op.state = "hung" /\ ~useDirectRead(op.fileSize) => op.deadline # NoTimer

\* a read by position of the file above 100 MB never returned: no timer is
\* set, and the clock has reached its last value with the hash still awaited
C34_HungForever ==
  /\ pc = "rom_await"
  /\ \E op \in hashOps : op.state = "hung" /\ op.deadline = NoTimer
  /\ now = MaxClock * HASH_TIMEOUT_MS

\* the read stream of a zip member failed: the extraction stays awaited
C34_ZipStuck ==
  /\ pc = "archive_await"
  /\ awaited = Pending
  /\ \E op \in extractOps : op.state = "zip_uncaught"


(***************************************************************************)
(* C35: the iteration over the entries of a zip archive.                   *)
(***************************************************************************)
\* the zip extractions that are reading entries
ZipOps == { op \in extractOps : op.state = "zip_entries" }

\* the positions in the table of contents of the members recorded so far
Recorded(op) == { op.extractedFiles[m].idx : m \in 1..Len(op.extractedFiles) }

\* C35 as stated: readEntry is called exactly once for each entry handled
\* (one call opens the iteration, so the calls number the entry awaited),
\* and a member whose write stream reported an error is not recorded.
C35_EachEntryAdvancesOnce ==
  \A op \in ZipOps :
    /\ op.readEntries = op.n
    /\ Recorded(op) \cap op.writeErrors = {}

\* C35 without write errors: a member passed over, extracted or not opened
\* advances the iteration by one call of readEntry, and only members written
\* are recorded.
C35_AdvancesOnceWithoutWriteError ==
  \A op \in ZipOps :
    op.writeErrors = {} =>
      /\ op.readEntries = op.n
      /\ \A idx \in Recorded(op) : IsRomEntry(op.members[idx])

\* a member's write stream failed: it is recorded and readEntry ran twice
C35_WriteErrorRecorded ==
  \E op \in ZipOps :
    /\ op.writeErrors # {}
    /\ op.writeErrors \subseteq Recorded(op)
    /\ op.readEntries > op.n


(***************************************************************************)
(* C37: the error recorded for a 7z or rar archive that failed to extract. *)
(***************************************************************************)
\* the messages the archive loop itself records for an archive
LoopMessages ==
  { "Cannot stat archive: ", "Not a regular file", "No ROM files found in archive" }

\* the results recorded because the adapter of the archive threw
FailedExtractions(ext) ==
  { n \in 1..Len(results) :
      /\ extname(origins[n].file) = ext
      /\ origins[n].member = 0
      /\ HasError(results[n])
      /\ results[n].error[1] \notin LoopMessages }

\* C37 as stated: the error of a 7z archive that failed to extract reads
\* "Failed to extract 7Z archive: <cause>", that of a rar archive "Failed to
\* extract RAR archive: <cause>", at the await and in the recorded result.
C37_FailureNamesFormat ==
  /\ \A n \in FailedExtractions(".7z") :
       results[n].error[1] = "Failed to extract 7Z archive: "
  /\ \A n \in FailedExtractions(".rar") :
       results[n].error[1] = "Failed to extract RAR archive: "

\* what the code records: the message of the TypeError thrown in the catch
\* block of the adapter
C37_FailureIsCatchTypeError ==
  \A n \in FailedExtractions(".7z") \cup FailedExtractions(".rar") :
    results[n].error = RmSyncCatchError

\* a 7z and a rar archive have both failed to extract
C37_BothFailed ==
  /\ FailedExtractions(".7z") # {}
  /\ FailedExtractions(".rar") # {}


(***************************************************************************)
(* extractROMsFromArchive on archives that hold directory members, some    *)
(* of them named like a ROM.                                               *)
(***************************************************************************)
\* a directory member: "games.bin/" in a zip archive, an entry with the
\* attribute D in a 7z archive, a header with the directory flag in a rar
\* archive; path.extname and path.basename pass over the trailing slash
DirMember(name) == [dir |-> "", name |-> name, isDir |-> TRUE, data |-> Data("", 0)]

DirMemberLists ==
  LET files == { Member("", <<"zelda", "sfc">>, Data("Y", 2)),
                 Member("", <<"readme", "txt">>, Data("R", 1)) }
      dirs == { DirMember(<<"games", "bin">>), DirMember(<<"roms", "NES">>),
                DirMember(<<"docs">>) }
  IN { << d >> : d \in dirs }
       \cup { << d, f >> : d \in dirs, f \in files }
       \cup { << f, d >> : d \in dirs, f \in files }
       \cup { << d, e >> : d \in dirs, e \in dirs }

DirDisks ==
  { << Entry(<<"pack", ext>>, "file", Data("A", 9), members) >> :
    ext \in { "zip", "7z", "rar" }, members \in DirMemberLists }

InitDirs ==
  /\ root = "dir"
  /\ disk \in DirDisks
  /\ pc = "archives"
  /\ romFiles = <<>>
  /\ archiveFiles = filterArchive(findRomAndArchiveFiles(disk))
  /\ i = 1
  /\ j = 1
  /\ k = 1
  /\ extractedROMs = <<>>
  /\ fileStats = 0
  /\ results = <<>>
  /\ origins = <<>>
  /\ tempDirsToCleanup = <<>>
  /\ tempDirs = [d \in {} |-> EmptyDir]
  /\ nTemp = 0
  /\ hashOps = {}
  /\ extractOps = {}
  /\ awaited = Pending
  /\ now = 0
  /\ faults = 0
  /\ extractLog = <<>>
  /\ hashLog = Null
  /\ thrown = Null
  /\ debug = FALSE
  /\ diagnostics = {}
  /\ ApartIdle

SpecDirs == InitDirs /\ [][NextExtract]_vars

(***************************************************************************)
(* C36: directory members are not extracted.                               *)
(***************************************************************************)
\* the members of the archive that the call returned as extracted ROMs
Materialized ==
  IF ExtractReturned
  THEN { CurrentArchive.members[awaited.value[m].idx] : m \in 1..Len(awaited.value) }
  ELSE {}

\* C36 as stated: no adapter returns a directory member as an extracted ROM,
\* whatever its name, for zip, 7z and rar archives.
C36_NoDirectoryMaterialized == \A m \in Materialized : ~m.isDir

\* C36 for the 7z adapter, which filters on the attribute D: it returns no
\* directory member, also when it is named like a ROM.
C36_SevenZipSkipsDirectories ==
  (ExtractReturned /\ IsSevenZip(CurrentArchive.name)) =>
    \A m \in Materialized : ~m.isDir

\* the 7z adapter returned from an archive holding a directory named like a
\* ROM next to a ROM file
C36_SevenZipWitness ==
  /\ ExtractReturned
  /\ IsSevenZip(CurrentArchive.name)
  /\ \E n \in 1..Len(CurrentArchive.members) :
       CurrentArchive.members[n].isDir /\ IsRomEntry(CurrentArchive.members[n])
  /\ Materialized # {}

\* the zip adapter returned the directory games.bin/ as an extracted ROM
C36_ZipDirectoryMaterialized ==
  /\ ExtractReturned
  /\ extname(CurrentArchive.name) = ".zip"
  /\ \E m \in Materialized : m.isDir /\ m.name = <<"games", "bin">>

=============================================================================
